---------------------------- MODULE Spec2Model ----------------------------
(***************************************************************************)
(* A model of the bnk-router request dispatcher.                           *)
(*                                                                         *)
(* Router (src/src/router.ts) with its AuthHandler                         *)
(* (auth/auth-handler.ts), the plugin-based Router variant with the        *)
(* AuthPlugin, and the router-utils functions matchRoute and               *)
(* validateRequest.                                                        *)
(*                                                                         *)
(* Strings that the code inspects character by character (URLs, route      *)
(* patterns, middleware prefixes) are sequences of one-character strings.  *)
(* Functions supplied by the caller (middleware, handlers, verify steps,   *)
(* validators, plugin hooks) are records: an identity and the outcome the  *)
(* function produces when it is called.                                    *)
(***************************************************************************)
EXTENDS Integers, Sequences, FiniteSets, TLC

(***************************************************************************)
(* Bounds of the model.                                                    *)
(***************************************************************************)
MaxRoutes == 1         \* routes of a router whose auth or middleware is examined
MaxLookupRoutes == 3   \* routes of a router whose route lookup is examined
MaxMws == 3            \* use() calls on one router
MaxPlugins == 1        \* registerPlugin() calls on one router
MaxHookPlugins == 2    \* registerPlugin() calls on a router whose hooks are examined
MaxThrowMws == 1       \* use() calls on a router whose exceptions are examined
MaxSegments == 2       \* segments of a path or route pattern handed to matchRoute

(***************************************************************************)
(* Character-level string helpers.                                         *)
(***************************************************************************)
RECURSIVE IndexOf(_, _, _)
\* String.prototype.indexOf from position i (1-based); 0 when c is absent.
IndexOf(s, c, i) ==
  IF i > Len(s) THEN 0
  ELSE IF s[i] = c THEN i
  ELSE IndexOf(s, c, i + 1)

\* Mutant: the query string is left on the path.
BeforeQuery_Kept(s) == s

\* path.split('?')[0]
BeforeQuery(s) ==
  LET q == IndexOf(s, "?", 1)
  IN  IF q = 0 THEN s ELSE SubSeq(s, 1, q - 1)

RECURSIVE StripTrailingSlashes(_)
\* s.replace(/\/+$/, '')
StripTrailingSlashes(s) ==
  IF Len(s) > 0 /\ s[Len(s)] = "/"
  THEN StripTrailingSlashes(SubSeq(s, 1, Len(s) - 1))
  ELSE s

RECURSIVE SplitSlash(_, _, _)
\* s.split('/'): the pieces between slashes, empty pieces included.
\* cur is the piece being read, i the next position.
SplitSlash(s, i, cur) ==
  IF i > Len(s) THEN <<cur>>
  ELSE IF s[i] = "/" THEN <<cur>> \o SplitSlash(s, i + 1, <<>>)
  ELSE SplitSlash(s, i + 1, Append(cur, s[i]))

\* s.split('/').filter(Boolean)
Segments(s) == SelectSeq(SplitSlash(s, 1, <<>>), LAMBDA p : Len(p) > 0)

\* String.prototype.startsWith
StartsWith(s, p) == Len(p) <= Len(s) /\ SubSeq(s, 1, Len(p)) = p

(***************************************************************************)
(* matchRoute (router-utils).  The result is a record: ok is FALSE for     *)
(* null; params is the parameter map, a function from names to values.     *)
(***************************************************************************)
NoMatch == [ok |-> FALSE, params |-> <<>>]

\* Mutant: a static segment of the pattern is not compared with the path's.
BindParts_Uncompared(routeParts, pathParts, i, params) ==
  [ok |-> TRUE, params |-> params]

RECURSIVE BindParts(_, _, _, _)
\* The loop over routeParts: params accumulated so far, i the index.
BindParts(routeParts, pathParts, i, params) ==
  IF i > Len(routeParts) THEN [ok |-> TRUE, params |-> params]
  ELSE LET routePart == routeParts[i]
           pathPart == pathParts[i]
       IN  IF StartsWith(routePart, <<":">>)
           THEN BindParts(routeParts, pathParts, i + 1,
                          (Tail(routePart) :> pathPart) @@ params)
           ELSE IF routePart # pathPart THEN NoMatch
           ELSE BindParts(routeParts, pathParts, i + 1, params)

matchRoute(path, routePath) ==
  LET cleanPath == StripTrailingSlashes(BeforeQuery(path))
      cleanRoutePath == StripTrailingSlashes(routePath)
      pathParts == Segments(cleanPath)
      routeParts == Segments(cleanRoutePath)
  IN  IF cleanPath = <<>> /\ cleanRoutePath = <<>>
      THEN [ok |-> TRUE, params |-> <<>>]
      ELSE IF Len(pathParts) # Len(routeParts) THEN NoMatch
      ELSE BindParts(routeParts, pathParts, 1, <<>>)


(***************************************************************************)
(* Values.  An identity of 0 means "absent".                               *)
(***************************************************************************)
\* A caller-supplied function: who it is and what a call of it produces.
Fn(id, out) == [id |-> id, out |-> out]

\* AuthConfig / AuthMiddlewareConfig: verify and the optional onError mapper.
AuthCfg(verify, onError) == [verify |-> verify, onError |-> onError]
NoAuthCfg == AuthCfg(Fn(0, "ok"), 0)

\* Identities of the functions the configurations below are made of.
FnId ==
  [globalVerify |-> 101, globalMapper |-> 102, globalOnError |-> 103,
   laterVerify |-> 111, laterMapper |-> 112,
   routeVerify |-> 201, routeMapper |-> 202,
   pluginVerify |-> 301, pluginMapper |-> 302]

GlobalAuthConfigs ==
  {AuthCfg(Fn(FnId.globalVerify, o), m) : o \in {"ok", "throw"}, m \in {0, FnId.globalMapper}}
\* The configs a caller passes to configureAuth once routes are registered.
LaterAuthConfigs ==
  {AuthCfg(Fn(FnId.laterVerify, o), m) : o \in {"ok", "throw"}, m \in {0, FnId.laterMapper}}
RouteAuthConfigs ==
  {AuthCfg(Fn(FnId.routeVerify, o), m) : o \in {"ok", "throw"}, m \in {0, FnId.routeMapper}}
PluginAuthConfigs ==
  {AuthCfg(Fn(FnId.pluginVerify, o), m) : o \in {"ok", "throw"}, m \in {0, FnId.pluginMapper}}

\* RouteConfig.auth: absent, false, true, or an object-shaped config.
AuthOpt(kind, cfg) == [kind |-> kind, cfg |-> cfg]
AuthAbsent == AuthOpt("absent", NoAuthCfg)
AuthFalse == AuthOpt("false", NoAuthCfg)
AuthTrue == AuthOpt("true", NoAuthCfg)
AuthObject(cfg) == AuthOpt("object", cfg)
\* JavaScript truthiness of opts.auth
AuthTruthy(auth) == auth.kind \in {"true", "object"}
RouteAuthOpts ==
  {AuthAbsent, AuthFalse, AuthTrue} \cup {AuthObject(c) : c \in RouteAuthConfigs}

\* ValidationSchema: per facet "absent", or the validator's outcome on the
\* request: "ok", "zod" (throws a ZodError), "other" (throws something else).
Facets == <<"params", "query", "headers", "body">>
Schema(p, q, h, b) == [params |-> p, query |-> q, headers |-> h, body |-> b]
NoValidation == Schema("absent", "absent", "absent", "absent")

\* RouteConfig
Opts(auth, validation, middleware) ==
  [auth |-> auth, validation |-> validation, middleware |-> middleware]

\* A RouteHandler: the base function (id, out, the content type it sets) and
\* the wrappers plugins put around it, innermost first.
Handler(id, out, ctype) == [id |-> id, out |-> out, ctype |-> ctype, wraps |-> <<>>]

\* A Request: method, url (characters), the body it carries, its content type
\* and whether it has an Origin header.
Req(method, url, body, ctype) ==
  [method |-> method, url |-> url, body |-> body, ctype |-> ctype, origin |-> FALSE]
NoReq == Req("", <<>>, "none", "")

\* A Response: status, what produced it (tag and identity), its content-type
\* header and the plugins whose onResponse hook replaced it.
Res(status, tag, by, ctype) ==
  [status |-> status, tag |-> tag, by |-> by, ctype |-> ctype, marks |-> <<>>]
NoRes == Res(0, "", 0, "")

\* A thrown value: whether it is an Error, and who threw it.
Thrown(isError, by) == [thrown |-> TRUE, isError |-> isError, by |-> by]
NoErr == [thrown |-> FALSE, isError |-> FALSE, by |-> 0]

\* A RouterPlugin: each hook "absent" or the outcome of calling it; inits
\* counts the calls of its onInit hook.
Plugin(id, before, onRequest, onError, onResponse, cfg) ==
  [id |-> id, onInit |-> "absent", inits |-> 0, before |-> before, after |-> "absent",
   onRequest |-> onRequest, onError |-> onError, onResponse |-> onResponse,
   hasCfg |-> cfg # NoAuthCfg, cfg |-> cfg]

\* new CorsPlugin(opts): onInit installs the preflight middleware, onResponse
\* adds the CORS headers.
CorsPlugin ==
  [Plugin(0, "absent", "absent", "absent", "cors", NoAuthCfg) EXCEPT !.onInit = "use"]

\* An entry of the execution log: a call of a function with the auth payload
\* its request carries, or the settling of what the call returned.
Call(kind, id, auth) == [ph |-> "call", kind |-> kind, id |-> id, auth |-> auth, out |-> ""]
Settle(kind, id, out) == [ph |-> "settle", kind |-> kind, id |-> id, auth |-> 0, out |-> out]

(***************************************************************************)
(* State of a Router and of the dispatch in progress.                      *)
(***************************************************************************)
VARIABLES
  routes,       \* Router.routes
  globalMws,    \* Router.globalMws
  pathMws,      \* Router.pathMws: a Map, kept as its entries in insertion order
  authHandler,  \* Router.authHandler: null, or an AuthHandler and its config
  onError,      \* Router.onError: 0, or the identity of the global error handler
  plugins,      \* Router.plugins
  pc,           \* position of handle(): "idle", a stage, "done" or "rejected"
  req,          \* the request being dispatched
  matched,      \* result of matchRouteHandler: index into routes (0: none), params
  res,          \* the response in hand
  err,          \* the exception caught by handle()
  inCatch,      \* handle() is in its catch block
  log,          \* calls made during the dispatch, in order
  applied,      \* the last direct call of a router-utils function: input and result
  held,         \* the Request object the caller passed to handle(): what the
                \* pipeline did to it, and what the caller kept of a previous dispatch
  suspended     \* the calls of addRoute() and handle() that wait at an await
                \* while another call runs, oldest first

vars == <<routes, globalMws, pathMws, authHandler, onError, plugins,
          pc, req, matched, res, err, inCatch, log, applied, held, suspended>>
router == <<routes, globalMws, pathMws, authHandler, onError, plugins>>
dispatch == <<pc, req, matched, res, err, inCatch, log, applied, held, suspended>>

NoAuthHandler == [exists |-> FALSE, hasConfig |-> FALSE, config |-> NoAuthCfg]
\* new AuthHandler(config)
NewAuthHandler(cfg) == [exists |-> TRUE, hasConfig |-> TRUE, config |-> cfg]

NoMatched == [index |-> 0, params |-> <<>>]
NoApplied == [fn |-> "none"]
\* bodyUsed: the object's body stream has been read; auth: the payload assigned
\* to the object itself (0: none); again, res, rejected: the caller dispatches
\* the object a second time, and how its first dispatch ended.
NoHeld == [bodyUsed |-> FALSE, auth |-> 0, again |-> FALSE, res |-> NoRes,
           rejected |-> FALSE]

IdleDispatch ==
  /\ pc = "idle"
  /\ req = NoReq
  /\ matched = NoMatched
  /\ res = NoRes
  /\ err = NoErr
  /\ inCatch = FALSE
  /\ log = <<>>
  /\ applied = NoApplied
  /\ held = NoHeld
  /\ suspended = <<>>

\* new Router(opts): opts.auth and opts.onError are optional.
RouterInit(authChoices, onErrorChoices) ==
  /\ routes = <<>>
  /\ globalMws = <<>>
  /\ pathMws = <<>>
  /\ authHandler \in authChoices
  /\ onError \in onErrorChoices
  /\ plugins = <<>>
  /\ IdleDispatch



(***************************************************************************)
(* What a step of the pipeline produces: the calls it made, and either     *)
(* nothing ("none"), a response ("res") or a thrown value ("throw").       *)
(***************************************************************************)
\* bodyRead: the step read the body stream of the request object it was given;
\* assigned: the auth payload the step assigned to that object itself (0: none).
Out(ev, kind, r, e) ==
  [ev |-> ev, kind |-> kind, res |-> r, err |-> e, bodyRead |-> FALSE, assigned |-> 0]
Continue(ev) == Out(ev, "none", NoRes, NoErr)
Respond(ev, r) == Out(ev, "res", r, NoErr)
Throw(ev, e) == Out(ev, "throw", NoRes, e)
\* The calls of `first` followed by what `rest` produces.
After(ev, rest) == [rest EXCEPT !.ev = ev \o @]

\* One awaited call of a caller-supplied function.
Invoke(kind, fn, auth) == <<Call(kind, fn.id, auth), Settle(kind, fn.id, fn.out)>>

RECURSIVE RunMiddlewaresFrom_NoStop(_, _, _)
\* Mutant: the loop collects the first response but does not return on it.
RunMiddlewaresFrom_NoStop(kind, mws, i) ==
  IF i > Len(mws) THEN Continue(<<>>)
  ELSE LET mw == mws[i]
           ev == Invoke(kind, mw, 0)
           rest == RunMiddlewaresFrom_NoStop(kind, mws, i + 1)
       IN  CASE mw.out = "respond" ->
                  IF rest.kind = "throw" THEN After(ev, rest)
                  ELSE Respond(ev \o rest.ev, Res(403, "mw", mw.id, "none"))
             [] mw.out = "throw" -> Throw(ev, Thrown(TRUE, mw.id))
             [] OTHER -> After(ev, rest)

\* Mutant: the preflight middleware answers every OPTIONS request.
MwsFor_AnyOptions(r, mws) ==
  [i \in DOMAIN mws |->
     IF mws[i].out = "cors"
     THEN Fn(mws[i].id, IF r.method = "OPTIONS" THEN "preflight" ELSE "next")
     ELSE mws[i]]

\* What the middlewares of a list do with the request r. The middleware
\* CorsPlugin installs answers an OPTIONS request that has an Origin header
\* and passes every other request on.
MwsFor(r, mws) ==
  [i \in DOMAIN mws |->
     IF mws[i].out = "cors"
     THEN Fn(mws[i].id, IF r.method = "OPTIONS" /\ r.origin THEN "preflight" ELSE "next")
     ELSE mws[i]]

\* What the on-response hooks of the plugins do with the request r.
\* CorsPlugin.onResponse returns a new response iff r has an Origin header.
PluginsFor(r, ps) ==
  [i \in DOMAIN ps |->
     IF ps[i].onResponse = "cors"
     THEN [ps[i] EXCEPT !.onResponse = IF r.origin THEN "replace" ELSE "null"]
     ELSE ps[i]]

RECURSIVE RunMiddlewaresFrom(_, _, _)
RunMiddlewaresFrom(kind, mws, i) ==
  IF i > Len(mws) THEN Continue(<<>>)
  ELSE LET mw == mws[i]
           ev == Invoke(kind, mw, 0)
       IN  CASE mw.out = "respond" -> Respond(ev, Res(403, "mw", mw.id, "none"))
             [] mw.out = "preflight" -> Respond(ev, Res(204, "preflight", mw.id, "none"))
             [] mw.out = "throw" -> Throw(ev, Thrown(TRUE, mw.id))
             [] OTHER -> After(ev, RunMiddlewaresFrom(kind, mws, i + 1))

\* Mutant: the list is walked from its end.
RunMiddlewares_Reversed(kind, mws) ==
  RunMiddlewaresFrom(kind, [i \in 1..Len(mws) |-> mws[Len(mws) + 1 - i]], 1)

\* Router.runMiddlewares
RunMiddlewares(kind, mws) == RunMiddlewaresFrom(kind, mws, 1)

RECURSIVE RunPathMiddlewaresFrom(_, _, _)
RunPathMiddlewaresFrom(entries, path, i) ==
  IF i > Len(entries) THEN Continue(<<>>)
  ELSE IF StartsWith(path, entries[i].prefix)
       THEN LET o == RunMiddlewares("pathMw", entries[i].mws)
            IN  IF o.kind = "none"
                THEN After(o.ev, RunPathMiddlewaresFrom(entries, path, i + 1))
                ELSE o
       ELSE RunPathMiddlewaresFrom(entries, path, i + 1)

\* Router.runPathMiddlewares
RunPathMiddlewares(entries, path) == RunPathMiddlewaresFrom(entries, path, 1)

RECURSIVE RunPluginHookFrom(_, _, _)
RunPluginHookFrom(ps, hookName, i) ==
  IF i > Len(ps) THEN Continue(<<>>)
  ELSE LET hook == ps[i][hookName]
           ev == Invoke(hookName, Fn(ps[i].id, hook), 0)
       IN  CASE hook = "absent" -> RunPluginHookFrom(ps, hookName, i + 1)
             [] hook = "respond" ->
                  Respond(ev, Res(IF hookName = "onError" THEN 500 ELSE 200,
                                  hookName, ps[i].id, "none"))
             [] hook = "throw" -> Throw(ev, Thrown(TRUE, ps[i].id))
             [] OTHER -> After(ev, RunPluginHookFrom(ps, hookName, i + 1))

\* Mutant: the hooks are called, the response one of them returns is dropped.
RunPluginHook_Dropped(ps, hookName) ==
  LET o == RunPluginHookFrom(ps, hookName, 1)
  IN  IF o.kind = "res" THEN Continue(o.ev) ELSE o

\* Router.runPluginHook, for the hooks that may answer with a Response
RunPluginHook(ps, hookName) == RunPluginHookFrom(ps, hookName, 1)

RECURSIVE RunPluginResponseHookFrom(_, _, _)
RunPluginResponseHookFrom(ps, r, i) ==
  IF i > Len(ps) THEN Respond(<<>>, r)
  ELSE LET hook == ps[i].onResponse
           ev == Invoke("onResponse", Fn(ps[i].id, hook), 0)
       IN  CASE hook = "absent" -> RunPluginResponseHookFrom(ps, r, i + 1)
             [] hook = "replace" ->
                  After(ev, RunPluginResponseHookFrom(
                              ps, [r EXCEPT !.marks = Append(@, ps[i].id)], i + 1))
             [] hook = "throw" -> Throw(ev, Thrown(TRUE, ps[i].id))
             [] OTHER -> After(ev, RunPluginResponseHookFrom(ps, r, i + 1))

\* Mutant: the hooks after the first replacement are not called.
RunPluginResponseHook_FirstWins(ps, r) ==
  LET first == {i \in DOMAIN ps : ps[i].onResponse = "replace"}
      n == IF first = {} THEN Len(ps) ELSE CHOOSE i \in first : \A j \in first : i <= j
  IN  RunPluginResponseHookFrom(SubSeq(ps, 1, n), r, 1)

\* Router.runPluginResponseHook
RunPluginResponseHook(ps, r) == RunPluginResponseHookFrom(ps, r, 1)

\* Mutant: the global error handler, when configured, answers before the plugins.
HandleErrorOf_GlobalFirst(ps, globalOnError, e) ==
  LET pluginResponse == RunPluginHook(ps, "onError")
  IN  IF globalOnError # 0
      THEN Respond(Invoke("globalOnError", Fn(globalOnError, "respond"), 0),
                   Res(500, "globalOnError", globalOnError, "none"))
      ELSE IF pluginResponse.kind # "none" THEN pluginResponse
      ELSE Respond(pluginResponse.ev, Res(500, IF e.isError THEN "errorMessage"
                                               ELSE "genericMessage", e.by, "json"))

\* Mutant: the default response carries String(error) whatever was thrown.
HandleErrorOf_RawMessage(ps, globalOnError, e) ==
  LET pluginResponse == RunPluginHook(ps, "onError")
  IN  IF pluginResponse.kind # "none" THEN pluginResponse
      ELSE IF globalOnError # 0
           THEN Respond(pluginResponse.ev \o Invoke("globalOnError", Fn(globalOnError, "respond"), 0),
                        Res(500, "globalOnError", globalOnError, "none"))
           ELSE Respond(pluginResponse.ev, Res(500, "errorMessage", e.by, "json"))

\* Router.handleError
HandleErrorOf(ps, globalOnError, e) ==
  LET pluginResponse == RunPluginHook(ps, "onError")
      defaultRes == Res(500, IF e.isError THEN "errorMessage" ELSE "genericMessage",
                        e.by, "json")
  IN  IF pluginResponse.kind # "none" THEN pluginResponse
      ELSE IF globalOnError # 0
           THEN Respond(pluginResponse.ev \o Invoke("globalOnError", Fn(globalOnError, "respond"), 0),
                        Res(500, "globalOnError", globalOnError, "none"))
           ELSE Respond(pluginResponse.ev, defaultRes)

\* Mutant: every response of a route is labelled application/json.
SetContentType_Always(r) == [r EXCEPT !.ctype = "json"]

\* Router.setContentType
SetContentType(r) == IF r.ctype = "none" THEN [r EXCEPT !.ctype = "json"] ELSE r

\* Mutant: handle() has nothing to answer an unmatched request with.
NotFoundRes_Null == NoRes

\* Router.notFoundRes
NotFoundRes == Res(404, "notFound", 0, "json")


(***************************************************************************)
(* validateRequest.  The result lists the validator calls, the failing     *)
(* facets in the order they were recorded, and per facet whether           *)
(* parsedData holds the validator's output ("parsed"), the raw value       *)
(* ("raw") or nothing ("unset").                                           *)
(***************************************************************************)
Validated(ev, errors, data) ==
  [ev |-> ev, errors |-> errors, data |-> data, bodyRead |-> FALSE]
FacetId(facet) == CHOOSE i \in 1..Len(Facets) : Facets[i] = facet
CallValidator(facet, v) == Invoke("validator", Fn(FacetId(facet), v), 0)

\* One of the params / query / headers blocks of the zod-based validateRequest:
\* only a ZodError is recorded, any other thrown value is dropped.
ZodFacet(facet, v, acc) ==
  CASE v = "absent" -> [acc EXCEPT !.data[facet] = "raw"]
    [] v = "ok" -> [acc EXCEPT !.ev = @ \o CallValidator(facet, v), !.data[facet] = "parsed"]
    [] v = "zod" -> [acc EXCEPT !.ev = @ \o CallValidator(facet, v),
                                !.errors = Append(@, facet)]
    [] OTHER -> [acc EXCEPT !.ev = @ \o CallValidator(facet, v)]

\* The body block of the zod-based validateRequest: req.json() on the request
\* itself, then the validator; whatever is thrown is a body failure.  A body
\* that is not JSON text, or was read before ("used"), makes req.json() throw.
ZodBody(r, v, acc) ==
  CASE v = "absent" -> acc
    [] r.body # "json" -> [acc EXCEPT !.errors = Append(@, "body"), !.bodyRead = TRUE]
    [] v = "ok" -> [acc EXCEPT !.ev = @ \o CallValidator("body", v), !.data.body = "parsed",
                               !.bodyRead = TRUE]
    [] OTHER -> [acc EXCEPT !.ev = @ \o CallValidator("body", v),
                            !.errors = Append(@, "body"), !.bodyRead = TRUE]

UnsetData == [params |-> "unset", query |-> "unset", headers |-> "unset", body |-> "unset"]

\* validateRequest of router-utils as imported by router.ts (zod schemas)
validateRequest(r, validation) ==
  LET a0 == Validated(<<>>, <<>>, UnsetData)
      a1 == ZodFacet("params", validation.params, a0)
      a2 == ZodFacet("query", validation.query, a1)
      a3 == ZodFacet("headers", validation.headers, a2)
  IN  ZodBody(r, validation.body, a3)

\* Mutant: a facet is skipped once an earlier facet has failed.
ValidatorFacet_FailFast(facet, v, acc) ==
  CASE v = "absent" \/ acc.errors # <<>> -> acc
    [] v = "ok" -> [acc EXCEPT !.ev = @ \o CallValidator(facet, v), !.data[facet] = "parsed"]
    [] OTHER -> [acc EXCEPT !.ev = @ \o CallValidator(facet, v),
                            !.errors = Append(@, facet)]

\* One of the params / query / headers blocks of the validator-based
\* validateRequest: whatever the validator throws is recorded.
ValidatorFacet(facet, v, acc) ==
  CASE v = "absent" -> acc
    [] v = "ok" -> [acc EXCEPT !.ev = @ \o CallValidator(facet, v), !.data[facet] = "parsed"]
    [] OTHER -> [acc EXCEPT !.ev = @ \o CallValidator(facet, v),
                            !.errors = Append(@, facet)]

\* Mutant: the outer catch of the body block records the decode failure again.
ValidatorBody_Twice(r, v, acc) ==
  CASE v = "absent" -> acc
    [] r.body = "used" \/ (r.ctype = "json" /\ r.body # "json") ->
         [acc EXCEPT !.errors = @ \o <<"body", "body">>]
    [] v = "ok" -> [acc EXCEPT !.ev = @ \o CallValidator("body", v), !.data.body = "parsed"]
    [] OTHER -> [acc EXCEPT !.ev = @ \o CallValidator("body", v),
                            !.errors = Append(@, "body")]

\* The body block of the validator-based validateRequest: decode a clone
\* according to the content type, then call the validator.  req.clone()
\* throws when the body was read before ("used").
ValidatorBody(r, v, acc) ==
  CASE v = "absent" -> acc
    [] r.body = "used" \/ (r.ctype = "json" /\ r.body # "json") ->
         [acc EXCEPT !.errors = Append(@, "body")]
    [] v = "ok" -> [acc EXCEPT !.ev = @ \o CallValidator("body", v), !.data.body = "parsed"]
    [] OTHER -> [acc EXCEPT !.ev = @ \o CallValidator("body", v),
                            !.errors = Append(@, "body")]

RawData == [params |-> "raw", query |-> "raw", headers |-> "raw", body |-> "unset"]

\* validateRequest of router-utils as imported by the plugin-based Router
validateRequestV2(r, validation) ==
  LET a0 == Validated(<<>>, <<>>, RawData)
      a1 == ValidatorFacet("params", validation.params, a0)
      a2 == ValidatorFacet("query", validation.query, a1)
      a3 == ValidatorFacet("headers", validation.headers, a2)
  IN  ValidatorBody(r, validation.body, a3)

\* Router.buildValidationErrorRes: one details entry per recorded failure
ValidationErrorRes(errors) == [Res(400, "validation", 0, "json") EXCEPT !.marks = errors]

(***************************************************************************)
(* Calling a route handler: the plugin wrappers, outermost first, then the *)
(* handler the caller registered.  auth is the payload on the request.     *)
(***************************************************************************)
\* The response of a failed verify step: the mapper's, or the default 401.
VerifyFailedRes(mapper, verifyId) ==
  IF mapper # 0
  THEN Respond(Invoke("authOnError", Fn(mapper, "respond"), 0), Res(401, "mapper", mapper, "none"))
  ELSE Respond(<<>>, Res(401, "authFailed", verifyId, "json"))

AuthConfigErrorRes == Res(500, "authConfig", 0, "json")

RECURSIVE CallHandlerFrom(_, _, _)
\* k wrappers are still around the handler.
CallHandlerFrom(h, k, auth) ==
  IF k = 0
  THEN LET ev == Invoke("handler", Fn(h.id, h.out), auth)
       IN  CASE h.out = "ok" -> Respond(ev, Res(200, "handler", h.id, h.ctype))
             [] h.out = "throwValue" -> Throw(ev, Thrown(FALSE, h.id))
             [] OTHER -> Throw(ev, Thrown(TRUE, h.id))
  ELSE \* AuthPlugin's wrappedHandler
       LET plugin == h.wraps[k]
           routeAuth == plugin.cfg
           ev == Invoke("verify", routeAuth.verify, 0)
       IN  IF ~plugin.hasCfg THEN Respond(<<>>, AuthConfigErrorRes)
           ELSE IF routeAuth.verify.out = "ok"
                THEN \* (req as any).auth = userAuthData
                     LET inner == CallHandlerFrom(h, k - 1, routeAuth.verify.id)
                     IN  [After(ev, inner) EXCEPT
                            !.assigned = IF inner.assigned # 0 THEN inner.assigned
                                         ELSE routeAuth.verify.id]
                ELSE After(ev, VerifyFailedRes(routeAuth.onError, routeAuth.verify.id))

CallHandler(h, auth) == CallHandlerFrom(h, Len(h.wraps), auth)

\* try { data = await validateRequest(...); return handler(req, data) }
\* catch (ValidationFailedError) { return buildValidationErrorRes(e) }
ValidateAndHandle(v, h, auth) ==
  LET o == IF v.errors # <<>> THEN Respond(v.ev, ValidationErrorRes(v.errors))
           ELSE After(v.ev, CallHandler(h, auth))
  IN  [o EXCEPT !.bodyRead = v.bodyRead]


(***************************************************************************)
(* AuthHandler (auth/auth-handler.ts) and Router.runAuth.                  *)
(***************************************************************************)
\* The TypeError of req.clone() on a request whose body was read before.
CloneError == Thrown(TRUE, 0)

\* The result of AuthHandler.handleAuth: calls made, response (or NoRes), authData.
AuthResult(ev, r, authData) == [ev |-> ev, res |-> r, authData |-> authData]

\* AuthHandler.handleAuth on the handler `ah`, for the route's auth option.
handleAuth(ah, authConfig) ==
  LET verifyFn == IF authConfig.kind = "object" THEN authConfig.cfg.verify
                  ELSE ah.config.verify
      errorHandler == IF authConfig.kind = "object" /\ authConfig.cfg.onError # 0
                      THEN authConfig.cfg.onError
                      ELSE ah.config.onError
      ev == Invoke("verify", verifyFn, 0)
      failed == VerifyFailedRes(errorHandler, verifyFn.id)
  IN  CASE ~AuthTruthy(authConfig) -> AuthResult(<<>>, NoRes, 0)
        [] ~ah.hasConfig -> AuthResult(<<>>, AuthConfigErrorRes, 0)
        [] verifyFn.out = "ok" -> AuthResult(ev, NoRes, verifyFn.id)
        [] OTHER -> AuthResult(ev \o failed.ev, failed.res, 0)

\* Mutant: the router's own AuthHandler, holding the global config, authenticates.
authenticateRequest_Global(ah, r, authConfig, validation, handler) ==
  LET a == handleAuth(ah, AuthTrue)
  IN  IF a.res # NoRes THEN Respond(a.ev, a.res)
      ELSE After(a.ev, ValidateAndHandle(validateRequest(r, validation), handler, a.authData))

\* AuthHandler.authenticateRequest: a temporary AuthHandler made of the
\* route's config authenticates, then the request is validated and handled.
authenticateRequest(ah, r, authConfig, validation, handler) ==
  LET tempHandler == NewAuthHandler(authConfig)
      a == handleAuth(tempHandler, AuthTrue)
  IN  IF a.res # NoRes THEN Respond(a.ev, a.res)
      ELSE IF r.body = "used" THEN Throw(a.ev, CloneError)
      ELSE After(a.ev, ValidateAndHandle(validateRequest(r, validation), handler, a.authData))

\* Router.runAuth: the wrapped handler addRoute stores in the route table.
runAuth(ah, r, opts, handler) ==
  IF ~ah.exists \/ ~AuthTruthy(opts.auth)
  THEN ValidateAndHandle(validateRequest(r, opts.validation), handler, 0)
  ELSE IF opts.auth.kind = "object"
       THEN authenticateRequest(ah, r, opts.auth.cfg, opts.validation, handler)
       ELSE LET a == handleAuth(ah, opts.auth)
            IN  IF a.res # NoRes THEN Respond(a.ev, a.res)
                ELSE IF r.body = "used" THEN Throw(a.ev, CloneError)
                ELSE After(a.ev, ValidateAndHandle(validateRequest(r, opts.validation),
                                                   handler, a.authData))

\* Router.runValidationAndHandle of the plugin-based Router
runValidationAndHandle(r, opts, handler) ==
  ValidateAndHandle(validateRequestV2(r, opts.validation), handler, 0)

\* The wrapped handler of a stored route, called by handle().
RouteHandler(ah, route, r) ==
  IF route.via = "runAuth"
  THEN runAuth(ah, r, route.opts, route.handler)
  ELSE runValidationAndHandle(r, route.opts, route.handler)

(***************************************************************************)
(* Route lookup.                                                           *)
(***************************************************************************)
\* new URL(req.url).pathname, for the URLs of the model: what precedes '?'
Pathname(url) == BeforeQuery(url)

RECURSIVE MatchFrom_AnyMethod(_, _, _, _)
\* Mutant: the method of a route is not compared.
MatchFrom_AnyMethod(rs, method, path, i) ==
  IF i > Len(rs) THEN NoMatched
  ELSE LET params == matchRoute(path, rs[i].path)
       IN  IF params.ok THEN [index |-> i, params |-> params.params]
           ELSE MatchFrom_AnyMethod(rs, method, path, i + 1)

RECURSIVE MatchFrom(_, _, _, _)
MatchFrom(rs, method, path, i) ==
  IF i > Len(rs) THEN NoMatched
  ELSE IF rs[i].method # method THEN MatchFrom(rs, method, path, i + 1)
  ELSE LET params == matchRoute(path, rs[i].path)
       IN  IF params.ok THEN [index |-> i, params |-> params.params]
           ELSE MatchFrom(rs, method, path, i + 1)

\* Router.matchRouteHandler
matchRouteHandler(rs, method, path) == MatchFrom(rs, method, path, 1)


(***************************************************************************)
(* Registration.  The caller registers between dispatches.                 *)
(***************************************************************************)
RECURSIVE CountPathMws(_, _)
CountPathMws(entries, i) ==
  IF i > Len(entries) THEN 0 ELSE Len(entries[i].mws) + CountPathMws(entries, i + 1)

MwCount == Len(globalMws) + CountPathMws(pathMws, 1)

\* this.pathMws.get(path) || [] ; arr.push(mw) ; this.pathMws.set(path, arr)
\* A Map keeps a key at the position of its first insertion.
MapPush(entries, path, mw) ==
  IF \E i \in 1..Len(entries) : entries[i].prefix = path
  THEN [i \in 1..Len(entries) |->
          IF entries[i].prefix = path
          THEN [entries[i] EXCEPT !.mws = Append(@, mw)]
          ELSE entries[i]]
  ELSE Append(entries, [prefix |-> path, mws |-> <<mw>>])

\* Router.use(mw, path?): an absent or empty path registers a global middleware.
\* The middleware passed to the n-th use() call has identity n.
Use(out, path) ==
  /\ pc = "idle"
  /\ LET mw == Fn(MwCount + 1, out)
     IN  /\ globalMws' = IF path = <<>> THEN Append(globalMws, mw) ELSE globalMws
         /\ pathMws' = IF path = <<>> THEN pathMws ELSE MapPush(pathMws, path, mw)
  /\ UNCHANGED <<routes, authHandler, onError, plugins, dispatch>>

\* Router.configureAuth(cfg)
ConfigureAuth(cfg) ==
  /\ pc = "idle"
  /\ authHandler' = IF ~authHandler.exists THEN NewAuthHandler(cfg)
                    ELSE [authHandler EXCEPT !.hasConfig = TRUE, !.config = cfg]
  /\ authHandler' # authHandler
  /\ UNCHANGED <<routes, globalMws, pathMws, onError, plugins, dispatch>>

\* Mutant: a plugin is put in front of the plugins registered before it.
RegisterPlugin_Front(plugin) ==
  /\ pc = "idle"
  /\ plugins' = <<[plugin EXCEPT !.id = Len(plugins) + 1]>> \o plugins
  /\ UNCHANGED <<routes, globalMws, pathMws, authHandler, onError, dispatch>>

\* Mutant: the plugin joins the list only once its init hook has returned.
RegisterPluginInit_InitFirst(plugin) ==
  /\ pc = "idle"
  /\ plugins' = IF plugin.onInit = "throw" THEN plugins
                 ELSE Append(plugins, [plugin EXCEPT !.id = Len(plugins) + 1,
                                         !.inits = IF plugin.onInit = "absent" THEN 0 ELSE 1])
  /\ globalMws' = IF plugin.onInit = "use"
                   THEN Append(globalMws, Fn(MwCount + 1, "cors")) ELSE globalMws
  /\ applied' = [fn |-> "registerPlugin", id |-> Len(plugins) + 1,
                 ev |-> IF plugin.onInit = "absent" THEN <<>>
                        ELSE Invoke("onInit", Fn(Len(plugins) + 1, plugin.onInit), 0),
                 settled |-> IF plugin.onInit = "throw" THEN "rejected" ELSE "resolved"]
  /\ UNCHANGED <<routes, pathMws, authHandler, onError,
                 pc, req, matched, res, err, inCatch, log, held, suspended>>

\* Mutant: the init hook of the plugin is not called.
RegisterPluginInit_NoInit(plugin) ==
  /\ pc = "idle"
  /\ plugins' = Append(plugins, [plugin EXCEPT !.id = Len(plugins) + 1])
  /\ applied' = [fn |-> "registerPlugin", id |-> Len(plugins) + 1, ev |-> <<>>,
                 settled |-> "resolved"]
  /\ UNCHANGED <<routes, globalMws, pathMws, authHandler, onError,
                 pc, req, matched, res, err, inCatch, log, held, suspended>>

\* Router.registerPlugin(plugin) with the plugin's init hook:
\* this.plugins.push(plugin); await plugin.onInit?.(this).  An init hook
\* returns ("ok"), throws, or calls router.use(mw) as CorsPlugin's does ("use").
RegisterPluginInit(plugin) ==
  /\ pc = "idle"
  /\ plugins' = Append(plugins, [plugin EXCEPT !.id = Len(plugins) + 1,
                                   !.inits = IF plugin.onInit = "absent" THEN 0 ELSE 1])
  /\ globalMws' = IF plugin.onInit = "use"
                   THEN Append(globalMws, Fn(MwCount + 1, "cors")) ELSE globalMws
  /\ applied' = [fn |-> "registerPlugin", id |-> Len(plugins) + 1,
                 ev |-> IF plugin.onInit = "absent" THEN <<>>
                        ELSE Invoke("onInit", Fn(Len(plugins) + 1, plugin.onInit), 0),
                 settled |-> IF plugin.onInit = "throw" THEN "rejected" ELSE "resolved"]
  /\ UNCHANGED <<routes, pathMws, authHandler, onError,
                 pc, req, matched, res, err, inCatch, log, held, suspended>>

\* Router.registerPlugin(plugin).  The n-th plugin registered has identity n.
RegisterPlugin(plugin) ==
  /\ pc = "idle"
  /\ plugins' = Append(plugins, [plugin EXCEPT !.id = Len(plugins) + 1])
  /\ UNCHANGED <<routes, globalMws, pathMws, authHandler, onError, dispatch>>

\* The middleware list and the handler a caller passes to the n-th
\* registration: the handler has identity n, the i-th middleware 10 * n + i.
NewMws(outs) == [i \in 1..Len(outs) |-> Fn(10 * (Len(routes) + 1) + i, outs[i])]
NewHandler(out, ctype) == Handler(Len(routes) + 1, out, ctype)

\* Mutant: a route that asks for auth keeps the global config of the moment
\* it is registered.
AddRoute_Captured(method, path, auth, validation, mwOuts, out, ctype) ==
  /\ pc = "idle"
  /\ LET kept == IF auth = AuthTrue /\ authHandler.hasConfig
                  THEN AuthObject(authHandler.config) ELSE auth
     IN  routes' = Append(routes,
                     [path |-> path, method |-> method, middleware |-> NewMws(mwOuts),
                      opts |-> Opts(kept, validation, NewMws(mwOuts)),
                      handler |-> NewHandler(out, ctype), via |-> "runAuth"])
  /\ UNCHANGED <<globalMws, pathMws, authHandler, onError, plugins, dispatch>>

\* Router.addRoute (router.ts): the before- and after-register hooks are
\* called for their effects only; the route stores opts and handler as given.
AddRoute(method, path, auth, validation, mwOuts, out, ctype) ==
  /\ pc = "idle"
  /\ routes' = Append(routes,
                 [path |-> path, method |-> method, middleware |-> NewMws(mwOuts),
                  opts |-> Opts(auth, validation, NewMws(mwOuts)),
                  handler |-> NewHandler(out, ctype), via |-> "runAuth"])
  /\ UNCHANGED <<globalMws, pathMws, authHandler, onError, plugins, dispatch>>

RECURSIVE BeforeRegisterFrom(_, _, _, _)
\* The loop of the plugin-based addRoute over onBeforeRouteRegister: the first
\* AuthPlugin wraps only a route that asks for auth, the second wraps every route.
BeforeRegisterFrom(ps, opts, handler, i) ==
  IF i > Len(ps) THEN handler
  ELSE LET wrap == \/ ps[i].before = "authAll"
                   \/ ps[i].before = "auth" /\ AuthTruthy(opts.auth)
       IN  BeforeRegisterFrom(ps, opts,
             IF wrap THEN [handler EXCEPT !.wraps = Append(@, ps[i])] ELSE handler, i + 1)

\* Router.addRoute of the plugin-based Router
AddRoutePlugin(method, path, auth, validation, mwOuts, out, ctype) ==
  /\ pc = "idle"
  /\ LET opts == Opts(auth, validation, NewMws(mwOuts))
         finalHandler == BeforeRegisterFrom(plugins, opts, NewHandler(out, ctype), 1)
     IN  routes' = Append(routes,
                     [path |-> path, method |-> method, middleware |-> opts.middleware,
                      opts |-> opts, handler |-> finalHandler,
                      via |-> "runValidationAndHandle"])
  /\ UNCHANGED <<globalMws, pathMws, authHandler, onError, plugins, dispatch>>


(***************************************************************************)
(* Router.handle, one action per stage of the pipeline.  A stage that      *)
(* yields a response hands it to the on-response hooks; a stage that       *)
(* throws inside the try block enters the catch block; a throw inside the  *)
(* catch block rejects the promise handle() returned.                      *)
(***************************************************************************)
Stage(o, nextPc) ==
  /\ log' = log \o o.ev
  /\ pc' = CASE o.kind = "res" -> "onResponse"
             [] o.kind = "throw" -> IF inCatch THEN "rejected" ELSE "handleError"
             [] OTHER -> nextPc
  /\ res' = IF o.kind = "res" THEN o.res ELSE res
  /\ err' = IF o.kind = "throw" THEN o.err ELSE err
  /\ inCatch' = (inCatch \/ o.kind = "throw")

\* handle(req): runPluginHook('onRequest', req)
HandleOnRequest(r) ==
  /\ pc = "idle"
  /\ req' = r
  /\ Stage(RunPluginHook(plugins, "onRequest"), "globalMws")
  /\ UNCHANGED <<router, matched, applied, held, suspended>>

\* runMiddlewares(req, this.globalMws)
HandleGlobalMws ==
  /\ pc = "globalMws"
  /\ Stage(RunMiddlewares("globalMw", MwsFor(req, globalMws)), "pathMws")
  /\ UNCHANGED <<router, req, matched, applied, held, suspended>>

\* runPathMiddlewares(req, pathname)
HandlePathMws ==
  /\ pc = "pathMws"
  /\ Stage(RunPathMiddlewares(pathMws, Pathname(req.url)), "match")
  /\ UNCHANGED <<router, req, matched, applied, held, suspended>>

\* matchRouteHandler(method, pathname), or the 404 response
HandleMatch ==
  /\ pc = "match"
  /\ matched' = matchRouteHandler(routes, req.method, Pathname(req.url))
  /\ Stage(IF matched'.index = 0 THEN Respond(<<>>, NotFoundRes) ELSE Continue(<<>>),
           "routeMws")
  /\ UNCHANGED <<router, req, applied, held, suspended>>

\* runMiddlewares(req, route.middleware ?? [])
HandleRouteMws ==
  /\ pc = "routeMws"
  /\ Stage(RunMiddlewares("routeMw", routes[matched.index].middleware), "route")
  /\ UNCHANGED <<router, req, matched, applied, held, suspended>>

\* The request object as the pipeline finds it: req, with its body stream
\* exhausted if an earlier stage or dispatch read it.
Inbound == [req EXCEPT !.body = IF held.bodyUsed THEN "used" ELSE @]

\* res = await route.handler(req, params); setContentType(res)
HandleRoute ==
  /\ pc = "route"
  /\ LET o == RouteHandler(authHandler, routes[matched.index], Inbound)
     IN  /\ Stage(IF o.kind = "res" THEN Respond(o.ev, SetContentType(o.res)) ELSE o,
                  "route")
         /\ held' = [held EXCEPT !.bodyUsed = @ \/ (o.bodyRead /\ req.body # "none"),
                                 !.auth = IF o.assigned # 0 THEN o.assigned ELSE @]
  /\ UNCHANGED <<router, req, matched, applied, suspended>>

\* catch (err): errorRes = await handleError(err, req)
HandleError ==
  /\ pc = "handleError"
  /\ Stage(HandleErrorOf(plugins, onError, err), "handleError")
  /\ UNCHANGED <<router, req, matched, applied, held, suspended>>

\* return await runPluginResponseHook(req, res)
HandleOnResponse ==
  /\ pc = "onResponse"
  /\ LET o == RunPluginResponseHook(PluginsFor(req, plugins), res)
     IN  /\ log' = log \o o.ev
         /\ pc' = IF o.kind = "res" THEN "done"
                  ELSE IF inCatch THEN "rejected" ELSE "handleError"
         /\ res' = IF o.kind = "res" THEN o.res ELSE res
         /\ err' = IF o.kind = "throw" THEN o.err ELSE err
         /\ inCatch' = (inCatch \/ o.kind = "throw")
  /\ UNCHANGED <<router, req, matched, applied, held, suspended>>

\* handle() has returned (or rejected); the router is ready for the next call.
Return ==
  /\ pc \in {"done", "rejected"}
  /\ pc' = "idle"
  /\ req' = NoReq
  /\ matched' = NoMatched
  /\ res' = NoRes
  /\ err' = NoErr
  /\ inCatch' = FALSE
  /\ log' = <<>>
  /\ held' = NoHeld
  /\ UNCHANGED <<router, applied, suspended>>

\* handle() has returned (or rejected) and the caller keeps the Request object
\* and the outcome, to pass the same object to handle() again.
ReturnKeep ==
  /\ pc \in {"done", "rejected"}
  /\ ~held.again
  /\ pc' = "idle"
  /\ matched' = NoMatched
  /\ res' = NoRes
  /\ err' = NoErr
  /\ inCatch' = FALSE
  /\ log' = <<>>
  /\ held' = [held EXCEPT !.again = TRUE, !.res = res, !.rejected = (pc = "rejected")]
  /\ UNCHANGED <<router, req, applied, suspended>>

Pipeline ==
  \/ HandleGlobalMws
  \/ HandlePathMws
  \/ HandleMatch
  \/ HandleRouteMws
  \/ HandleRoute
  \/ HandleError
  \/ HandleOnResponse
  \/ Return

(***************************************************************************)
(* Inputs of the model.                                                    *)
(***************************************************************************)
UrlA == <<"/", "a">>
UrlAB == <<"/", "a", "/", "b">>
UrlAx == <<"/", "a", "x">>
UrlB == <<"/", "b">>
UrlRoot == <<"/">>
PatternX == <<"/", ":", "x">>

Get(url) == Req("GET", url, "json", "json")
Post(url) == Req("POST", url, "json", "json")

(***************************************************************************)
(* Spec: a Router (router.ts) with global and route-level auth.            *)
(***************************************************************************)
AuthValidations ==
  {NoValidation, Schema("ok", "absent", "absent", "absent"),
   Schema("zod", "absent", "absent", "ok")}

Init == RouterInit({NoAuthHandler} \cup {NewAuthHandler(c) : c \in GlobalAuthConfigs},
                   {0, FnId.globalOnError})

Next ==
  \/ \E c \in GlobalAuthConfigs : ConfigureAuth(c)
  \/ \E a \in RouteAuthOpts, v \in AuthValidations, o \in {"ok", "throw"} :
       Len(routes) < MaxRoutes /\ AddRoute("GET", UrlA, a, v, <<>>, o, "none")
  \/ \E r \in {Get(UrlA), Post(UrlA)} : HandleOnRequest(r)
  \/ Pipeline

Spec == Init /\ [][Next]_vars

(***************************************************************************)
(* SpecMw: a Router (router.ts) with plugins and the three middleware      *)
(* tiers in front of a route.                                              *)
(***************************************************************************)
MwPlugins ==
  {Plugin(0, "absent", "null", "absent", "replace", NoAuthCfg),
   Plugin(0, "absent", "respond", "absent", "absent", NoAuthCfg)}

MwRouteOpts ==
  {Opts(AuthAbsent, NoValidation, <<>>),
   Opts(AuthTrue, Schema("ok", "absent", "absent", "absent"), <<"next", "next">>),
   Opts(AuthTrue, Schema("ok", "absent", "absent", "absent"), <<"next", "respond">>)}

InitMw == RouterInit({NewAuthHandler(AuthCfg(Fn(FnId.globalVerify, "ok"), 0))}, {0})

NextMw ==
  \/ \E o \in {"next", "respond"}, p \in {<<>>, UrlA} : MwCount < MaxMws /\ Use(o, p)
  \/ \E p \in MwPlugins : Len(plugins) < MaxPlugins /\ RegisterPlugin(p)
  \/ \E c \in MwRouteOpts, o \in {"ok", "throw"} :
       Len(routes) < MaxRoutes
       /\ AddRoute("GET", UrlA, c.auth, c.validation, c.middleware, o, "none")
  \/ \E r \in {Get(UrlA), Get(UrlAx)} : HandleOnRequest(r)
  \/ Pipeline

SpecMw == InitMw /\ [][NextMw]_vars

(***************************************************************************)
(* SpecPath: a Router (router.ts) with path-scoped middleware registered   *)
(* under several prefixes.                                                 *)
(***************************************************************************)
InitPath == RouterInit({NoAuthHandler}, {0})

NextPath ==
  \/ \E o \in {"next", "respond"}, p \in {UrlRoot, UrlA, UrlAB} :
       MwCount < MaxMws /\ Use(o, p)
  \/ \E o \in {"ok", "throw"} :
       Len(routes) < MaxRoutes
       /\ AddRoute("GET", UrlA, AuthAbsent, NoValidation, <<>>, o, "none")
  \/ \E r \in {Get(UrlA), Get(UrlAx), Get(UrlAB), Get(UrlB)} : HandleOnRequest(r)
  \/ Pipeline

SpecPath == InitPath /\ [][NextPath]_vars

(***************************************************************************)
(* SpecRoute: a Router (router.ts) with several routes, of two methods and *)
(* of overlapping patterns.                                                *)
(***************************************************************************)
InitRoute == RouterInit({NoAuthHandler}, {0})

NextRoute ==
  \/ \E m \in {"GET", "POST"}, p \in {UrlA, PatternX, UrlAB}, o \in {"ok", "throw"} :
       Len(routes) < MaxLookupRoutes
       /\ AddRoute(m, p, AuthAbsent, NoValidation, <<>>, o, "none")
  \/ \E r \in {Get(UrlA), Post(UrlA), Get(UrlAB), Get(UrlB)} : HandleOnRequest(r)
  \/ Pipeline

SpecRoute == InitRoute /\ [][NextRoute]_vars

(***************************************************************************)
(* SpecPlugin: the plugin-based Router with an AuthPlugin.                 *)
(***************************************************************************)
AuthPlugins ==
  {Plugin(0, b, "absent", "absent", "absent", c) :
     b \in {"auth", "authAll"}, c \in PluginAuthConfigs \cup {NoAuthCfg}}

InitPlugin == RouterInit({NoAuthHandler}, {0, FnId.globalOnError})

NextPlugin ==
  \/ \E p \in AuthPlugins : Len(plugins) < MaxPlugins /\ RegisterPlugin(p)
  \/ \E a \in {AuthAbsent, AuthTrue}, v \in AuthValidations, o \in {"ok", "throw"} :
       Len(routes) < MaxRoutes
       /\ AddRoutePlugin("GET", UrlA, a, v, <<>>, o, "none")
  \/ \E r \in {Get(UrlA), Post(UrlA)} : HandleOnRequest(r)
  \/ Pipeline

SpecPlugin == InitPlugin /\ [][NextPlugin]_vars


(***************************************************************************)
(* Vocabulary of the properties.                                           *)
(***************************************************************************)
IsCall(i, kind) == log[i].ph = "call" /\ log[i].kind = kind
IsSettle(i, kind, out) == log[i].ph = "settle" /\ log[i].kind = kind /\ log[i].out = out
Called(kind) == \E i \in DOMAIN log : IsCall(i, kind)
\* The route the dispatch in progress was matched to.
HasRoute == matched.index # 0
Route == routes[matched.index]
RouteAuth == Route.opts.auth
VerifyOkBefore(i) == \E j \in 1..(i - 1) : IsSettle(j, "verify", "ok")
VerifyFailed == \E j \in DOMAIN log : IsSettle(j, "verify", "throw")

(***************************************************************************)
(* C1: on a route registered with an auth requirement (auth: true or an    *)
(* object config) the handler is called only after a verify step of the    *)
(* same request has succeeded, and its request carries the payload that    *)
(* verify step returned -- whether or not a global auth config was set.    *)
(***************************************************************************)
C1_HandlerOnlyAfterVerify ==
  HasRoute /\ AuthTruthy(RouteAuth) =>
    \A i \in DOMAIN log :
      IsCall(i, "handler") =>
        /\ log[i].auth # 0
        /\ \E j \in 1..(i - 1) :
             IsSettle(j, "verify", "ok") /\ log[j].id = log[i].auth

(***************************************************************************)
(* C2: on a route that requires auth, a validator is called only after     *)
(* the verify step has succeeded, and once verify has failed neither a     *)
(* validator nor the handler is called.                                    *)
(***************************************************************************)
C2_VerifyBeforeValidation ==
  HasRoute /\ AuthTruthy(RouteAuth) =>
    /\ \A i \in DOMAIN log : IsCall(i, "validator") => VerifyOkBefore(i)
    /\ VerifyFailed => ~Called("validator") /\ ~Called("handler")

(***************************************************************************)
(* C3: a dispatch to an auth: true route of a router that never got a      *)
(* global auth config ends in the misconfigured 500 response, and neither  *)
(* the verify step nor the handler is called.                              *)
(***************************************************************************)
C3_MisconfiguredIs500 ==
  HasRoute /\ RouteAuth.kind = "true" /\ ~authHandler.exists =>
    /\ ~Called("verify")
    /\ ~Called("handler")
    /\ pc = "done" => res.status = 500 /\ res.tag = "authConfig"

(***************************************************************************)
(* C4: when the route declares an object-shaped auth config and a global   *)
(* auth config with another verify step is set, the route's verify step    *)
(* is the only verify step called, and the handler's request carries the   *)
(* payload the route's verify step returned.                               *)
(***************************************************************************)
C4_RouteVerifyWins ==
  HasRoute /\ RouteAuth.kind = "object" /\ authHandler.exists =>
    /\ \A i \in DOMAIN log :
         /\ IsCall(i, "verify") => log[i].id = RouteAuth.cfg.verify.id
         /\ IsCall(i, "handler") => log[i].auth = RouteAuth.cfg.verify.id
    /\ pc = "done" => Called("verify")

C4_Witness ==
  /\ pc = "done"
  /\ HasRoute /\ RouteAuth.kind = "object"
  /\ authHandler.exists /\ authHandler.config.verify.id = FnId.globalVerify
  /\ \E i \in DOMAIN log : IsCall(i, "handler") /\ log[i].auth = FnId.routeVerify
  /\ res.tag = "handler"

(***************************************************************************)
(* C5: when the verify step fails, the response is the route-level error   *)
(* mapper's (object config), else the global error mapper's, else the      *)
(* default 401.                                                            *)
(***************************************************************************)
C5_ErrorMapperPrecedence ==
  pc = "done" /\ HasRoute /\ VerifyFailed =>
    LET routeMapper == IF RouteAuth.kind = "object" THEN RouteAuth.cfg.onError ELSE 0
        globalMapper == IF authHandler.hasConfig THEN authHandler.config.onError ELSE 0
        mapper == IF routeMapper # 0 THEN routeMapper ELSE globalMapper
    IN  IF mapper # 0
        THEN res.tag = "mapper" /\ res.by = mapper
        ELSE res.tag = "authFailed" /\ res.status = 401


(***************************************************************************)
(* C6: on a route registered without an auth requirement (auth absent or   *)
(* false) no verify step is called, also when a global auth config or an   *)
(* auth plugin with a global config is registered; the handler's request   *)
(* carries no auth payload.                                                *)
(***************************************************************************)
C6_NoVerifyWithoutAuth ==
  HasRoute /\ ~AuthTruthy(RouteAuth) =>
    /\ ~Called("verify")
    /\ \A i \in DOMAIN log : IsCall(i, "handler") => log[i].auth = 0

(***************************************************************************)
(* C7: once a middleware of any tier has returned a response, no further   *)
(* middleware, no verify step, no validator and no handler is called for   *)
(* the request, and the response handle() returns is that response, as     *)
(* left by the on-response hooks.                                          *)
(***************************************************************************)
MwKinds == {"globalMw", "pathMw", "routeMw"}
PipelineKinds == MwKinds \cup {"verify", "validator", "handler"}

C7_ShortCircuitAbsolute ==
  \A i \in DOMAIN log :
    log[i].kind \in MwKinds /\ log[i].ph = "settle" /\ log[i].out = "respond" =>
      /\ \A j \in (i + 1)..Len(log) : log[j].kind \notin PipelineKinds
      /\ res.tag = "mw" /\ res.by = log[i].id /\ res.status = 403
      /\ pc \in {"onResponse", "done"}
      /\ pc = "done" =>
           \A k \in DOMAIN plugins :
             /\ plugins[k].onResponse # "absent" =>
                  \E j \in (i + 1)..Len(log) :
                    IsCall(j, "onResponse") /\ log[j].id = plugins[k].id
             /\ plugins[k].onResponse = "replace" =>
                  \E m \in DOMAIN res.marks : res.marks[m] = plugins[k].id

C7_Witness ==
  /\ pc = "done"
  /\ HasRoute /\ AuthTruthy(RouteAuth)
  /\ \E i \in DOMAIN log : IsSettle(i, "routeMw", "respond")
  /\ \E i \in DOMAIN log : IsSettle(i, "globalMw", "next")
  /\ res.tag = "mw" /\ res.marks # <<>>

(***************************************************************************)
(* C8: in a dispatch that reaches the handler the calls are, in this       *)
(* order: the on-request hooks, every global middleware in registration    *)
(* order, the path-scoped middleware whose prefix matches, the route's     *)
(* own middleware in list order, the handler; every call has settled       *)
(* before the next one is made.                                            *)
(***************************************************************************)
Range(f) == {f[i] : i \in DOMAIN f}
StageKinds == <<"onRequest", "globalMw", "pathMw", "routeMw", "handler">>
Rank(kind) == CHOOSE n \in DOMAIN StageKinds : StageKinds[n] = kind
IsStageCall(i) == log[i].ph = "call" /\ log[i].kind \in Range(StageKinds)

\* The identities of the functions of one kind, in the order of their calls.
CallsOf(kind) ==
  LET calls == SelectSeq(log, LAMBDA e : e.ph = "call" /\ e.kind = kind)
  IN  [i \in DOMAIN calls |-> calls[i].id]
IdsOf(fns) == [i \in DOMAIN fns |-> fns[i].id]
Ascending(ids) == \A i, j \in DOMAIN ids : i < j => ids[i] < ids[j]

C8_PipelineOrder ==
  /\ \A i \in DOMAIN log :
       log[i].ph = "call" =>
         /\ i < Len(log)
         /\ log[i + 1].ph = "settle"
         /\ log[i + 1].kind = log[i].kind /\ log[i + 1].id = log[i].id
  /\ Called("handler") =>
       /\ \A i, j \in DOMAIN log :
            i < j /\ IsStageCall(i) /\ IsStageCall(j) =>
              Rank(log[i].kind) <= Rank(log[j].kind)
       /\ CallsOf("onRequest") =
            IdsOf(SelectSeq(plugins, LAMBDA p : p.onRequest # "absent"))
       /\ CallsOf("globalMw") = IdsOf(globalMws) /\ Ascending(CallsOf("globalMw"))
       /\ Range(CallsOf("pathMw")) =
            UNION {Range(IdsOf(pathMws[k].mws)) :
                     k \in {n \in DOMAIN pathMws :
                              StartsWith(Pathname(req.url), pathMws[n].prefix)}}
       /\ CallsOf("routeMw") = IdsOf(Route.middleware)
       /\ Len(CallsOf("handler")) = 1

C8_Witness ==
  /\ pc = "done" /\ res.tag = "handler"
  /\ Len(CallsOf("onRequest")) = 1
  /\ Len(CallsOf("globalMw")) = 2
  /\ Len(CallsOf("pathMw")) = 1
  /\ Len(CallsOf("routeMw")) = 2
  /\ Called("verify") /\ Called("validator")

(***************************************************************************)
(* C9: the path-scoped middleware called for a request are exactly those   *)
(* whose registered prefix is a string prefix of the request path, and     *)
(* when none of them answers they are called in the order in which they    *)
(* were registered by use(mw, prefix), also across different prefixes.     *)
(***************************************************************************)
PathTierDone == pc \notin {"idle", "globalMws", "pathMws"}

C9_PathMwRegistrationOrder ==
  PathTierDone /\ ~(\E i \in DOMAIN log : IsSettle(i, "pathMw", "respond")) =>
    /\ Range(CallsOf("pathMw")) =
         UNION {Range(IdsOf(pathMws[k].mws)) :
                  k \in {n \in DOMAIN pathMws :
                           StartsWith(Pathname(req.url), pathMws[n].prefix)}}
    /\ Ascending(CallsOf("pathMw"))

(***************************************************************************)
(* C10: route lookup yields the earliest-registered route whose method is  *)
(* the request's and whose pattern matches the path -- routes of other     *)
(* methods are skipped, of duplicates the first wins, a more specific      *)
(* pattern registered later does not take precedence -- and that route's   *)
(* handler is the one called.                                              *)
(***************************************************************************)
Candidates ==
  {i \in DOMAIN routes :
     routes[i].method = req.method /\ matchRoute(Pathname(req.url), routes[i].path).ok}
LookupDone == pc \notin {"idle", "globalMws", "pathMws", "match"}

C10_FirstRegisteredMatchWins ==
  LookupDone =>
    /\ IF Candidates = {} THEN matched.index = 0
       ELSE matched.index \in Candidates /\ \A c \in Candidates : matched.index <= c
    /\ \A i \in DOMAIN log : IsCall(i, "handler") => log[i].id = matched.index

C10_Witness ==
  /\ pc = "done" /\ res.tag = "handler"
  /\ Len(routes) = 3 /\ matched.index = 2
  /\ routes[1].method # req.method /\ routes[1].path = routes[3].path
  /\ routes[2].path = PatternX /\ routes[3].path = UrlA
  /\ Candidates = {2, 3}


(***************************************************************************)
(* SpecNotFound: a Router (router.ts) whose routes carry middleware, auth  *)
(* and validation, asked for paths and methods it has no route for.        *)
(***************************************************************************)
NotFoundPlugins == {Plugin(0, "absent", "null", "absent", "replace", NoAuthCfg)}

InitNotFound == RouterInit({NewAuthHandler(AuthCfg(Fn(FnId.globalVerify, "ok"), 0))}, {0})

NextNotFound ==
  \/ \E p \in NotFoundPlugins : Len(plugins) < MaxPlugins /\ RegisterPlugin(p)
  \/ \E m \in {"GET", "POST"}, p \in {UrlA, PatternX}, o \in {"ok", "throw"} :
       Len(routes) < MaxRoutes
       /\ AddRoute(m, p, AuthTrue, Schema("ok", "absent", "absent", "absent"),
                   <<"next">>, o, "none")
  \/ \E r \in {Get(UrlA), Post(UrlA), Get(UrlAB), Get(UrlRoot)} : HandleOnRequest(r)
  \/ Pipeline

SpecNotFound == InitNotFound /\ [][NextNotFound]_vars

ValidatorOutcomes == {"absent", "ok", "zod", "other"}
AllSchemas ==
  {Schema(p, q, h, b) : p \in ValidatorOutcomes, q \in ValidatorOutcomes,
                        h \in ValidatorOutcomes, b \in ValidatorOutcomes}
\* Requests whose body is JSON text or not, declared as JSON or as text.
BodyRequests ==
  {Req("POST", UrlA, b, c) : b \in {"json", "malformed"}, c \in {"json", "text"}}

\* The caller is done with the result of its last direct call.
Forget ==
  /\ applied # NoApplied
  /\ applied' = NoApplied
  /\ UNCHANGED <<router, pc, req, matched, res, err, inCatch, log, held, suspended>>

\* await validateRequest(req, params, validation)
ApplyValidateRequest(r, validation) ==
  /\ pc = "idle" /\ applied = NoApplied
  /\ applied' = [fn |-> "validateRequest", req |-> r, validation |-> validation,
                 out |-> validateRequestV2(r, validation)]
  /\ UNCHANGED <<router, pc, req, matched, res, err, inCatch, log, held, suspended>>

InitValidate == RouterInit({NoAuthHandler}, {0})

NextValidate ==
  \/ \E r \in BodyRequests, v \in AllSchemas : ApplyValidateRequest(r, v)
  \/ Forget

SpecValidate == InitValidate /\ [][NextValidate]_vars

\* The facet has a validator, and its input is rejected (for the body: the
\* JSON text does not decode, or the validator throws).
FacetFails(r, validation, facet) ==
  /\ validation[facet] # "absent"
  /\ \/ validation[facet] # "ok"
     \/ facet = "body" /\ r.ctype = "json" /\ r.body # "json"
\* The facet has a validator and there is an input to hand to it.
FacetAttempted(r, validation, facet) ==
  /\ validation[facet] # "absent"
  /\ ~(facet = "body" /\ r.ctype = "json" /\ r.body # "json")

(***************************************************************************)
(* C12: validateRequest attempts every facet that has a validator, in the  *)
(* order params, query, headers, body, whatever the earlier facets did,    *)
(* and the failure it throws lists every failing facet exactly once, in    *)
(* that order, and no facet that passed; it throws iff a facet failed.     *)
(***************************************************************************)
C12_AllFacetsAggregated ==
  applied.fn = "validateRequest" =>
    LET r == applied.req
        v == applied.validation
        calls == SelectSeq(applied.out.ev, LAMBDA e : e.ph = "call")
    IN  /\ applied.out.errors = SelectSeq(Facets, LAMBDA f : FacetFails(r, v, f))
        /\ [i \in DOMAIN calls |-> Facets[calls[i].id]] =
             SelectSeq(Facets, LAMBDA f : FacetAttempted(r, v, f))
        /\ \A i, j \in DOMAIN applied.out.errors :
             i # j => applied.out.errors[i] # applied.out.errors[j]

C12_Witness ==
  /\ applied.fn = "validateRequest"
  /\ applied.validation = Schema("zod", "other", "ok", "zod")
  /\ applied.out.errors = <<"params", "query", "body">>


(***************************************************************************)
(* SpecValidation: a Router (router.ts) dispatching to a route with a      *)
(* validation schema; no auth, no middleware, no plugins.                  *)
(***************************************************************************)
DispatchSchemas ==
  {Schema(p, q, "absent", b) :
     p \in ValidatorOutcomes, q \in {"absent", "zod"}, b \in {"absent", "ok", "zod"}}

InitValidation == RouterInit({NoAuthHandler}, {0})

NextValidation ==
  \/ \E v \in DispatchSchemas, o \in {"ok", "throw"} :
       Len(routes) < MaxRoutes /\ AddRoute("POST", UrlA, AuthAbsent, v, <<>>, o, "none")
  \/ \E b \in {"json", "malformed"} : HandleOnRequest(Req("POST", UrlA, b, "json"))
  \/ Pipeline

SpecValidation == InitValidation /\ [][NextValidation]_vars

\* The route's wrapped handler has run for the dispatch in progress.
RouteDone == HasRoute /\ pc \in {"onResponse", "handleError", "done"}
\* The facets whose validation failed: the validator threw, or the body the
\* schema asks for could not be decoded.
FailedFacets ==
  {Facets[log[i].id] : i \in {j \in DOMAIN log :
                                /\ log[j].ph = "settle" /\ log[j].kind = "validator"
                                /\ log[j].out # "ok"}}
  \cup (IF Route.opts.validation.body # "absent" /\ req.body # "json"
        THEN {"body"} ELSE {})

(***************************************************************************)
(* C13: when validation of the dispatched request fails, the response is   *)
(* the 400 "Validation failed" response with one details entry per         *)
(* failing facet and the handler is not called; when validation succeeds   *)
(* the handler is called and the status of its response is kept.           *)
(***************************************************************************)
C13_ValidationFailureIs400 ==
  RouteDone =>
    IF FailedFacets # {}
    THEN /\ ~Called("handler")
         /\ res.status = 400 /\ res.tag = "validation"
         /\ Range(res.marks) = FailedFacets
         /\ Len(res.marks) = Cardinality(FailedFacets)
    ELSE /\ Called("handler")
         /\ Route.handler.out = "ok" =>
              res.status = 200 /\ res.tag = "handler" /\ res.by = Route.handler.id


(***************************************************************************)
(* SpecHooks: a Router (router.ts) with several plugins implementing the   *)
(* on-request and on-response hooks, in front of global middleware and a   *)
(* route with middleware, auth and validation.                             *)
(***************************************************************************)
HookPlugins ==
  {Plugin(0, "absent", q, "absent", s, NoAuthCfg) :
     q \in {"null", "respond"}, s \in {"absent", "null", "replace"}}

InitHooks == RouterInit({NewAuthHandler(AuthCfg(Fn(FnId.globalVerify, "ok"), 0))}, {0})

NextHooks ==
  \/ \E p \in HookPlugins : Len(plugins) < MaxHookPlugins /\ RegisterPlugin(p)
  \/ MwCount < MaxMws /\ Use("next", <<>>)
  \/ \E o \in {"ok", "throw"} :
       Len(routes) < MaxRoutes
       /\ AddRoute("GET", UrlA, AuthTrue, Schema("ok", "absent", "absent", "absent"),
                   <<"next">>, o, "none")
  \/ \E r \in {Get(UrlA), Get(UrlB)} : HandleOnRequest(r)
  \/ Pipeline

SpecHooks == InitHooks /\ [][NextHooks]_vars

\* The identities of the plugins whose on-response hook is implemented / replaces.
OnResponsePlugins == IdsOf(SelectSeq(plugins, LAMBDA p : p.onResponse # "absent"))
ReplacingPlugins == IdsOf(SelectSeq(plugins, LAMBDA p : p.onResponse = "replace"))

(***************************************************************************)
(* C14: once a plugin's on-request hook has returned a response, no        *)
(* middleware of any tier, no route matching, no verify step, no validator *)
(* and no handler runs for the request; the response is the hook's, and    *)
(* it is returned only after every plugin's on-response hook was called    *)
(* on it.                                                                  *)
(***************************************************************************)
C14_OnRequestResponseIsFinal ==
  \A i \in DOMAIN log :
    IsSettle(i, "onRequest", "respond") =>
      /\ \A j \in DOMAIN log :
           log[j].kind \notin PipelineKinds /\ (j > i => log[j].kind = "onResponse")
      /\ matched = NoMatched
      /\ pc \in {"onResponse", "done"}
      /\ res.tag = "onRequest" /\ res.by = log[i].id /\ res.status = 200
      /\ pc = "done" =>
           /\ CallsOf("onResponse") = OnResponsePlugins
           /\ res.marks = ReplacingPlugins

C14_Witness ==
  /\ pc = "done"
  /\ Len(plugins) = 2 /\ Len(globalMws) > 0 /\ Len(routes) = 1
  /\ matchRoute(Pathname(req.url), routes[1].path).ok
  /\ \E i \in DOMAIN log : IsSettle(i, "onRequest", "null")
  /\ \E i \in DOMAIN log : IsSettle(i, "onRequest", "respond")
  /\ res.tag = "onRequest" /\ res.by = 2 /\ res.marks = <<1, 2>>


(***************************************************************************)
(* C15: when handle() returns, the on-response hook of every plugin that   *)
(* implements it has been called, in plugin registration order, whether    *)
(* or not an earlier plugin replaced the response; each hook is handed the *)
(* response as the previous one left it, and the response returned is the  *)
(* result of this fold: the response that entered it, replaced by each     *)
(* replacing plugin in turn.                                               *)
(***************************************************************************)
C15_OnResponseFold ==
  [][pc = "onResponse" /\ pc' = "done" =>
       /\ res' = [res EXCEPT !.marks = @ \o ReplacingPlugins]
       /\ \E ev \in {SubSeq(log', Len(log) + 1, Len(log'))} :
            /\ log' = log \o ev
            /\ SelectSeq(ev, LAMBDA e : e.ph = "call") =
                 [i \in DOMAIN OnResponsePlugins |->
                    Call("onResponse", OnResponsePlugins[i], 0)]
            /\ \A i \in DOMAIN ev : ev[i].kind = "onResponse"]_vars

C15_Witness ==
  /\ pc = "done" /\ res.tag = "handler"
  /\ Len(plugins) = 2
  /\ plugins[1].onResponse = "replace" /\ plugins[2].onResponse = "replace"
  /\ CallsOf("onResponse") = <<1, 2>>
  /\ res.marks = <<1, 2>>


(***************************************************************************)
(* SpecRegister: a Router (router.ts) on which plugins implementing the    *)
(* before-route-register hook are registered ahead of the routes.          *)
(***************************************************************************)
WrappingPlugins ==
  {Plugin(0, b, "absent", "absent", "absent", AuthCfg(Fn(FnId.pluginVerify, o), 0)) :
     b \in {"auth", "authAll"}, o \in {"ok", "throw"}}

InitRegister == RouterInit({NoAuthHandler}, {0})

NextRegister ==
  \/ \E p \in WrappingPlugins : Len(plugins) < MaxHookPlugins /\ RegisterPlugin(p)
  \/ \E a \in {AuthAbsent, AuthTrue}, o \in {"ok", "throw"} :
       Len(routes) < MaxRoutes
       /\ AddRoute("GET", UrlA, a, NoValidation, <<>>, o, "none")
  \/ HandleOnRequest(Get(UrlA))
  \/ Pipeline

SpecRegister == InitRegister /\ [][NextRegister]_vars

\* The plugins whose before-route-register hook returns a wrapped handler
\* for a route of the given config, in registration order.
Wrapping(ps, opts) ==
  SelectSeq(ps, LAMBDA p : \/ p.before = "authAll"
                           \/ p.before = "auth" /\ AuthTruthy(opts.auth))

(***************************************************************************)
(* C16: a route registration folds the before-route-register hooks over    *)
(* the plugins in registration order: each plugin is handed the handler    *)
(* as the previous plugins rewrote it, and the route that is stored uses   *)
(* the final handler -- every plugin's wrapper is around it, the first     *)
(* plugin's innermost -- and the final config.                             *)
(***************************************************************************)
C16_BeforeRegisterFold ==
  [][Len(routes') > Len(routes) =>
       LET route == routes'[Len(routes')]
       IN  /\ route.handler.wraps = Wrapping(plugins, route.opts)
           /\ route.middleware = route.opts.middleware]_vars


(***************************************************************************)
(* SpecError: a Router (router.ts) whose handler throws an Error or        *)
(* another value, with plugins implementing the on-error hook and an       *)
(* optional global error handler.                                          *)
(***************************************************************************)
ErrorPlugins ==
  {Plugin(0, "absent", "absent", e, "absent", NoAuthCfg) : e \in {"absent", "null", "respond"}}

InitError == RouterInit({NoAuthHandler}, {0, FnId.globalOnError})

NextError ==
  \/ \E p \in ErrorPlugins : Len(plugins) < MaxHookPlugins /\ RegisterPlugin(p)
  \/ \E o \in {"ok", "throw", "throwValue"} :
       Len(routes) < MaxRoutes
       /\ AddRoute("GET", UrlA, AuthAbsent, NoValidation, <<>>, o, "none")
  \/ HandleOnRequest(Get(UrlA))
  \/ Pipeline

SpecError == InitError /\ [][NextError]_vars

\* handleError has produced the response for the exception caught by handle().
Translated == err.thrown /\ pc \in {"onResponse", "done"}
\* The plugins whose on-error hook returns a response, by position.
Responders == {k \in DOMAIN plugins : plugins[k].onError = "respond"}
FirstResponder == CHOOSE k \in Responders : \A j \in Responders : k <= j

(***************************************************************************)
(* C17: for an exception that is not a validation failure, the first       *)
(* plugin (in registration order) whose on-error hook returns a response   *)
(* supplies the response, and then no later on-error hook and not the      *)
(* global error handler is called; if no plugin returns one, the global    *)
(* error handler, when configured, supplies it; otherwise it is the        *)
(* default 500.                                                            *)
(***************************************************************************)
C17_ErrorResponsePrecedence ==
  Translated =>
    IF Responders # {}
    THEN /\ res.tag = "onError" /\ res.by = plugins[FirstResponder].id
         /\ ~Called("globalOnError")
         /\ CallsOf("onError") =
              IdsOf(SelectSeq(SubSeq(plugins, 1, FirstResponder),
                              LAMBDA p : p.onError # "absent"))
    ELSE /\ CallsOf("onError") = IdsOf(SelectSeq(plugins, LAMBDA p : p.onError # "absent"))
         /\ IF onError # 0
            THEN res.tag = "globalOnError" /\ res.by = onError
                 /\ CallsOf("globalOnError") = <<onError>>
            ELSE res.tag \in {"errorMessage", "genericMessage"} /\ res.status = 500

C17_Witness ==
  /\ pc = "done" /\ err.thrown
  /\ onError = FnId.globalOnError
  /\ Len(plugins) = 2
  /\ plugins[1].onError = "null" /\ plugins[2].onError = "respond"
  /\ CallsOf("onError") = <<1, 2>>
  /\ res.tag = "onError" /\ res.by = 2

(***************************************************************************)
(* C18: the default error response has status 500 and a JSON body whose    *)
(* message is the thrown value's own message when the value is an Error,   *)
(* and the fixed generic text when it is anything else.                    *)
(***************************************************************************)
C18_DefaultErrorResponse ==
  Translated /\ Responders = {} /\ onError = 0 =>
    /\ res.status = 500 /\ res.ctype = "json"
    /\ res.tag = IF err.isError THEN "errorMessage" ELSE "genericMessage"
    /\ res.by = err.by

C18_Witness ==
  /\ pc = "done" /\ Translated /\ Responders = {} /\ onError = 0
  /\ ~err.isError /\ Route.handler.out = "throwValue"
  /\ res.tag = "genericMessage" /\ res.status = 500
  /\ Len(plugins) = 1 /\ CallsOf("onError") = <<1>>


(***************************************************************************)
(* SpecThrow: a Router (router.ts) in which every stage of a dispatch may  *)
(* throw: the plugin hooks, the middleware of each tier, the verify step,  *)
(* a validator, the handler.                                               *)
(***************************************************************************)
ThrowPlugins ==
  {Plugin(0, "absent", "throw", "null", "absent", NoAuthCfg),
   Plugin(0, "absent", "null", "null", "throw", NoAuthCfg),
   Plugin(0, "absent", "null", "null", "null", NoAuthCfg)}

InitThrow ==
  RouterInit({NewAuthHandler(AuthCfg(Fn(FnId.globalVerify, o), 0)) : o \in {"ok", "throw"}}, {0})

NextThrow ==
  \/ \E p \in ThrowPlugins : Len(plugins) < MaxHookPlugins /\ RegisterPlugin(p)
  \/ \E o \in {"next", "throw"}, p \in {<<>>, UrlA} : MwCount < MaxThrowMws /\ Use(o, p)
  \/ \E a \in {AuthAbsent, AuthTrue},
        v \in {NoValidation, Schema("zod", "absent", "absent", "absent")},
        m \in {<<>>, <<"throw">>}, o \in {"ok", "throw"} :
       Len(routes) < MaxRoutes /\ AddRoute("GET", UrlA, a, v, m, o, "none")
  \/ HandleOnRequest(Get(UrlA))
  \/ Pipeline

SpecThrow == InitThrow /\ [][NextThrow]_vars

\* The stages of a dispatch, by the kind of function they call.
ThrowingKinds ==
  {"onRequest", "globalMw", "pathMw", "routeMw", "verify", "validator", "handler",
   "onResponse"}
\* A function called at one of the stages has thrown.
Threw == \E i \in DOMAIN log :
           /\ log[i].ph = "settle" /\ log[i].kind \in ThrowingKinds
           /\ log[i].out \notin {"ok", "next", "null", "respond", "replace"}

(***************************************************************************)
(* C19: handle() never rejects, whichever stage of the dispatch throws     *)
(* (on-request hook, a middleware of any tier, the verify step, a          *)
(* validator, the handler, an on-response hook): it resolves to a          *)
(* response, and the error translation -- every plugin's on-error hook,    *)
(* then the global handler or the default -- has been performed exactly    *)
(* once for the request, and not at all when nothing threw.                *)
(***************************************************************************)
C19_ExceptionsTranslatedOnce ==
  /\ pc # "rejected"
  /\ pc = "done" =>
       /\ res # NoRes
       /\ CallsOf("onError") =
            IF Threw THEN IdsOf(SelectSeq(plugins, LAMBDA p : p.onError # "absent"))
            ELSE <<>>
       /\ Threw <=> res.tag \in {"errorMessage", "genericMessage", "globalOnError"}


(***************************************************************************)
(* SpecMatch: matchRoute (router-utils) called directly on paths and       *)
(* route patterns made of static and dynamic segments.                     *)
(***************************************************************************)
RECURSIVE Join(_)
\* The string "/s1/s2/..." of the segments; "/" when there are none.
Join(segs) ==
  IF segs = <<>> THEN <<"/">>
  ELSE IF Len(segs) = 1 THEN <<"/">> \o segs[1]
  ELSE <<"/">> \o segs[1] \o Join(Tail(segs))

SeqsUpTo(S, n) == UNION {[1..k -> S] : k \in 0..n}
PatternSegments == {<<"a">>, <<":", "x">>, <<":", "y">>}
PathSegments == {<<"a">>, <<"b">>}
PathSuffixes == {<<>>, <<"/">>, <<"?", "q">>}

\* matchRoute(path, routePath)
ApplyMatchRoute(pathSegs, suffix, routeSegs) ==
  /\ pc = "idle" /\ applied = NoApplied
  /\ applied' = [fn |-> "matchRoute", path |-> Join(pathSegs) \o suffix,
                 pathSegs |-> pathSegs, routeSegs |-> routeSegs, routePath |-> Join(routeSegs),
                 out |-> matchRoute(Join(pathSegs) \o suffix, Join(routeSegs))]
  /\ UNCHANGED <<router, pc, req, matched, res, err, inCatch, log, held, suspended>>

InitMatch == RouterInit({NoAuthHandler}, {0})

NextMatch ==
  \/ \E ps \in SeqsUpTo(PathSegments, MaxSegments), sfx \in PathSuffixes,
        rs \in SeqsUpTo(PatternSegments, MaxSegments) : ApplyMatchRoute(ps, sfx, rs)
  \/ Forget

SpecMatch == InitMatch /\ [][NextMatch]_vars

\* The dynamic (':'-prefixed) segments of a pattern, in order.
DynamicSegments(routeSegs) == SelectSeq(routeSegs, LAMBDA g : Head(g) = ":")

(***************************************************************************)
(* C20: when matchRoute matches a path against a pattern with k dynamic    *)
(* segments, the map it returns has exactly k bindings: one for each       *)
(* dynamic segment, under that segment's name, and no other.               *)
(***************************************************************************)
C20_OneBindingPerDynamicSegment ==
  applied.fn = "matchRoute" /\ applied.out.ok =>
    LET dyn == DynamicSegments(applied.routeSegs)
    IN  /\ Cardinality(DOMAIN applied.out.params) = Len(dyn)
        /\ DOMAIN applied.out.params = {Tail(dyn[i]) : i \in DOMAIN dyn}


(***************************************************************************)
(* C21: trailing slashes appended to the request path or to the pattern,   *)
(* and a query string appended to the request path, do not change what     *)
(* matchRoute returns: no match stays no match, a match keeps its          *)
(* parameter bindings.                                                     *)
(***************************************************************************)
C21_SlashesAndQueryIgnored ==
  applied.fn = "matchRoute" =>
    \A slashes \in {<<"/">>, <<"/", "/">>} :
      /\ matchRoute(applied.path \o slashes, applied.routePath) = applied.out
      /\ matchRoute(applied.path, applied.routePath \o slashes) = applied.out
      /\ matchRoute(applied.path \o <<"?", "q">>, applied.routePath) = applied.out
      /\ matchRoute(applied.path \o <<"?", "q">> \o slashes, applied.routePath \o slashes)
           = applied.out

C21_Witness ==
  /\ applied.fn = "matchRoute"
  /\ applied.path = <<"/", "a", "/", "b", "/">>
  /\ applied.routePath = <<"/", ":", "x", "/", ":", "y">>
  /\ applied.out.ok
  /\ applied.out.params[<<"x">>] = <<"a">> /\ applied.out.params[<<"y">>] = <<"b">>


(***************************************************************************)
(* SpecAgain: a caller passes the same Request object to handle() twice,   *)
(* with the router left as it was in between.  The route is stored by the  *)
(* Router of router.ts (zod-based validateRequest) or by the plugin-based  *)
(* Router (validator-based validateRequest).                               *)
(***************************************************************************)
AgainSchemas ==
  {NoValidation, Schema("ok", "absent", "absent", "absent"),
   Schema("absent", "absent", "absent", "ok"),
   Schema("absent", "absent", "absent", "zod")}

AgainBodies == {"json", "malformed", "none"}

InitAgain == RouterInit({NewAuthHandler(AuthCfg(Fn(FnId.globalVerify, "ok"), 0))}, {0})

NextAgain ==
  \/ \E a \in {AuthAbsent, AuthTrue}, v \in AgainSchemas, o \in {"ok", "throw"} :
       /\ Len(routes) < MaxRoutes /\ req = NoReq
       /\ AddRoute("POST", UrlA, a, v, <<>>, o, "none")
  \/ \E v \in AgainSchemas, o \in {"ok", "throw"} :
       /\ Len(routes) < MaxRoutes /\ req = NoReq
       /\ AddRoutePlugin("POST", UrlA, AuthAbsent, v, <<>>, o, "none")
  \/ \E b \in AgainBodies : req = NoReq /\ HandleOnRequest(Req("POST", UrlA, b, "json"))
  \/ held.again /\ HandleOnRequest(req)
  \/ ReturnKeep
  \/ Pipeline

SpecAgain == InitAgain /\ [][NextAgain]_vars

\* The second dispatch of the request object has ended.
SecondDone == held.again /\ pc \in {"done", "rejected"}

(***************************************************************************)
(* C22: the second dispatch of a request object through an unchanged       *)
(* router ends as the first did: it rejects iff the first rejected, and    *)
(* otherwise its response has the status and the body of the first one.    *)
(***************************************************************************)
C22_SecondDispatchSame ==
  SecondDone =>
    /\ (pc = "rejected") = held.rejected
    /\ pc = "done" =>
         /\ res.status = held.res.status
         /\ res.tag = held.res.tag
         /\ res.by = held.res.by
         /\ res.marks = held.res.marks


(***************************************************************************)
(* SpecContent: a Router (router.ts) whose handlers return responses with  *)
(* no content-type header, with application/json or with text/html, under  *)
(* plugins that observe or replace the response.                           *)
(***************************************************************************)
ContentTypes == {"none", "json", "html"}

ContentPlugins ==
  {Plugin(0, "absent", "absent", "absent", s, NoAuthCfg) : s \in {"null", "replace"}}

InitContent == RouterInit({NoAuthHandler}, {0})

NextContent ==
  \/ \E p \in ContentPlugins : Len(plugins) < MaxPlugins /\ RegisterPlugin(p)
  \/ \E c \in ContentTypes, o \in {"ok", "throw"} :
       Len(routes) < MaxRoutes
       /\ AddRoute("GET", UrlA, AuthAbsent, NoValidation, <<>>, o, c)
  \/ \E r \in {Get(UrlA), Get(UrlB)} : HandleOnRequest(r)
  \/ Pipeline

SpecContent == InitContent /\ [][NextContent]_vars

\* The response in hand is the one the route's handler returned, as the
\* router passes it on.
FromHandler == HasRoute /\ res.tag = "handler" /\ res.marks = <<>>

(***************************************************************************)
(* C23: the response a route handler produced leaves the router labelled   *)
(* application/json iff the handler returned it without a content type or  *)
(* with application/json; any other content type the handler set is kept.  *)
(***************************************************************************)
C23_ContentTypeDefaulted ==
  FromHandler =>
    /\ (res.ctype = "json") = (Route.handler.ctype \in {"none", "json"})
    /\ Route.handler.ctype # "none" => res.ctype = Route.handler.ctype

C23_Witness ==
  /\ pc = "done" /\ FromHandler
  /\ Route.handler.ctype = "html" /\ res.ctype = "html"


(***************************************************************************)
(* SpecOrder: a Router (router.ts) with several plugins, each implementing *)
(* some of the on-request, on-error and on-response hooks, and a route     *)
(* whose handler may throw.                                                *)
(***************************************************************************)
OrderPlugins ==
  {Plugin(0, "absent", q, e, s, NoAuthCfg) :
     q \in {"absent", "null", "respond"}, e \in {"absent", "null", "respond"},
     s \in {"absent", "null"}}

InitOrder == RouterInit({NoAuthHandler}, {0})

NextOrder ==
  \/ \E p \in OrderPlugins : Len(plugins) < MaxHookPlugins /\ RegisterPlugin(p)
  \/ \E o \in {"ok", "throw"} :
       Len(routes) < MaxRoutes
       /\ AddRoute("GET", UrlA, AuthAbsent, NoValidation, <<>>, o, "none")
  \/ HandleOnRequest(Get(UrlA))
  \/ Pipeline

SpecOrder == InitOrder /\ [][NextOrder]_vars

HookPoints == {"onRequest", "onError", "onResponse"}

\* The plugins a hook point has to call: those implementing the hook, in the
\* order of the plugin list, up to the first one that answers with a response.
HookCallees(hookName) ==
  LET impl == SelectSeq(plugins, LAMBDA p : p[hookName] # "absent")
      resp == {i \in DOMAIN impl : impl[i][hookName] = "respond"}
      n == IF resp = {} THEN Len(impl) ELSE CHOOSE i \in resp : \A j \in resp : i <= j
  IN  IdsOf(SubSeq(impl, 1, n))

\* The hook point has run to its end in the dispatch in progress.
HookPointDone(hookName) ==
  CASE hookName = "onRequest" -> pc # "idle"
    [] hookName = "onError" -> inCatch /\ pc \in {"onResponse", "done"}
    [] OTHER -> pc = "done"

(***************************************************************************)
(* C24: at each hook point the hooks are called one after the other (a     *)
(* hook is called only when the previous one has settled), in the order    *)
(* the plugins were registered; a plugin without the hook is skipped; at   *)
(* on-request and on-error no hook is called after the first one that      *)
(* returned a response, and the later hook points still call their hooks.  *)
(***************************************************************************)
C24_HooksSequentialInOrder ==
  /\ \A i \in DOMAIN log :
       (log[i].ph = "call" /\ log[i].kind \in HookPoints) =>
         /\ i < Len(log)
         /\ log[i + 1].ph = "settle"
         /\ log[i + 1].kind = log[i].kind /\ log[i + 1].id = log[i].id
  /\ \A h \in HookPoints :
       /\ Ascending(CallsOf(h))
       /\ HookPointDone(h) => CallsOf(h) = HookCallees(h)

C24_Witness ==
  /\ pc = "done" /\ Len(plugins) = 2
  /\ plugins[1].onError = "respond" /\ plugins[2].onError = "null"
  /\ CallsOf("onError") = <<1>>
  /\ CallsOf("onResponse") = <<1, 2>>


(***************************************************************************)
(* C25: the pipeline never assigns to the Request object the caller passed *)
(* to handle(): at no point of a dispatch does that object carry an auth   *)
(* payload, the payload of a successful verify step being visible to the   *)
(* handler only.                                                           *)
(***************************************************************************)
C25_InboundRequestNotMutated ==
  /\ held.auth = 0
  /\ \A i \in DOMAIN log :
       (IsCall(i, "handler") /\ VerifyOkBefore(i)) => log[i].auth # 0


(***************************************************************************)
(* C26: validating the body of a request leaves the body stream of the     *)
(* request object unread: once the route has validated a request that      *)
(* carries a body, whether the validation passed or failed, the caller's   *)
(* request object can still be read.                                       *)
(***************************************************************************)
C26_BodyLeftUnread ==
  (HasRoute /\ Route.opts.validation.body # "absent" /\ req.body # "none") =>
    ~held.bodyUsed


(***************************************************************************)
(* SpecZod: direct calls of the zod-based validateRequest, the one the     *)
(* Router of router.ts imports, over schemas whose validators pass, throw  *)
(* a ZodError or throw something else.                                     *)
(***************************************************************************)
\* await validateRequest(req, params, validation), zod-based version
ApplyValidateRequestZod(r, validation) ==
  /\ pc = "idle" /\ applied = NoApplied
  /\ applied' = [fn |-> "validateRequest", version |-> "zod", req |-> r,
                 validation |-> validation, out |-> validateRequest(r, validation)]
  /\ UNCHANGED <<router, pc, req, matched, res, err, inCatch, log, held, suspended>>

InitZod == RouterInit({NoAuthHandler}, {0})

NextZod ==
  \/ \E r \in BodyRequests, v \in AllSchemas : ApplyValidateRequestZod(r, v)
  \/ Forget

SpecZod == InitZod /\ [][NextZod]_vars

\* The facets whose validator was called and threw.
ThrowingFacets(out) ==
  {Facets[out.ev[i].id] : i \in {j \in DOMAIN out.ev :
                                    /\ out.ev[j].ph = "settle"
                                    /\ out.ev[j].kind = "validator"
                                    /\ out.ev[j].out # "ok"}}

(***************************************************************************)
(* C27: whatever a facet's validator throws, a ZodError or any other       *)
(* value, validateRequest records a failure of that facet and so throws    *)
(* the aggregated failure; when it returns, every facet that has a         *)
(* validator has its value in the result.                                  *)
(***************************************************************************)
C27_AnyThrownValueRecorded ==
  applied.fn = "validateRequest" =>
    /\ ThrowingFacets(applied.out) \subseteq Range(applied.out.errors)
    /\ applied.out.errors = <<>> =>
         \A i \in DOMAIN Facets :
           applied.validation[Facets[i]] # "absent" =>
             applied.out.data[Facets[i]] # "unset"


(***************************************************************************)
(* C28: matchRoute matches a path against a pattern iff, query and         *)
(* trailing slashes aside, both have the same number of segments and each  *)
(* static segment of the pattern equals the path's segment at the same     *)
(* position; segment counts that differ never match, and the root path     *)
(* matches the root pattern with an empty parameter map.                   *)
(***************************************************************************)
C28_MatchIffSegmentsAgree ==
  applied.fn = "matchRoute" =>
    LET ps == applied.pathSegs
        rs == applied.routeSegs
    IN  /\ applied.out.ok =
             /\ Len(ps) = Len(rs)
             /\ \A i \in DOMAIN rs : Head(rs[i]) # ":" => rs[i] = ps[i]
        /\ Len(ps) # Len(rs) => applied.out = NoMatch
        /\ (ps = <<>> /\ rs = <<>>) =>
             applied.out.ok /\ DOMAIN applied.out.params = {}

C28_Witness ==
  /\ applied.fn = "matchRoute"
  /\ applied.pathSegs = <<<<"a">>, <<"b">>>>
  /\ applied.routeSegs = <<<<":", "x">>, <<"a">>>>
  /\ applied.path = <<"/", "a", "/", "b", "?", "q">>
  /\ ~applied.out.ok


(***************************************************************************)
(* C29: when a dispatch has ended, however it ended, the on-response hook  *)
(* of each plugin that has one was called exactly once during it.          *)
(***************************************************************************)
C29_OnResponseOncePerDispatch ==
  pc \in {"done", "rejected"} =>
    \A k \in DOMAIN plugins :
      plugins[k].onResponse # "absent" =>
        Cardinality({i \in DOMAIN log :
                       IsCall(i, "onResponse") /\ log[i].id = plugins[k].id}) = 1


(***************************************************************************)
(* SpecAfter: a Router (router.ts) whose plugins implement the before- and *)
(* after-route-register hooks; a hook returns nothing, returns a Response  *)
(* or throws.  A registration is recorded as its caller sees it: the hook  *)
(* calls, the push onto the route table, and how the call settles.         *)
(***************************************************************************)
AfterPlugins ==
  {[Plugin(0, b, "absent", "absent", "null", NoAuthCfg) EXCEPT !.after = a] :
     b \in {"absent", "null"}, a \in {"absent", "null", "respond", "throw"}}

\* this.routes.push(...) within addRoute
Stored == [ph |-> "stored", kind |-> "route", id |-> 0, auth |-> 0, out |-> ""]

\* Router.addRoute (router.ts) with its plugin hooks: runPluginHook over
\* onBeforeRouteRegister, the push, runPluginHook over onAfterRouteRegister.
AddRouteCall(method, path, auth, validation, mwOuts, out, ctype) ==
  LET b == RunPluginHook(plugins, "before")
      a == RunPluginHook(plugins, "after")
  IN  /\ pc = "idle"
      /\ routes' = IF b.kind = "throw" THEN routes
                    ELSE Append(routes,
                           [path |-> path, method |-> method,
                            middleware |-> NewMws(mwOuts),
                            opts |-> Opts(auth, validation, NewMws(mwOuts)),
                            handler |-> NewHandler(out, ctype), via |-> "runAuth"])
      /\ applied' = [fn |-> "addRoute", plugins |-> plugins,
                     ev |-> IF b.kind = "throw" THEN b.ev ELSE b.ev \o <<Stored>> \o a.ev,
                     settled |-> IF b.kind = "throw" \/ a.kind = "throw"
                                 THEN "rejected" ELSE "resolved"]
      /\ UNCHANGED <<globalMws, pathMws, authHandler, onError, plugins,
                     pc, req, matched, res, err, inCatch, log, held, suspended>>

InitAfter == RouterInit({NoAuthHandler}, {0})

NextAfter ==
  \/ \E p \in AfterPlugins : Len(plugins) < MaxHookPlugins /\ RegisterPlugin(p)
  \/ \E o \in {"ok", "throw"} :
       Len(routes) < MaxRoutes
       /\ AddRouteCall("GET", UrlA, AuthAbsent, NoValidation, <<>>, o, "none")
  \/ HandleOnRequest(Get(UrlA))
  \/ Pipeline

SpecAfter == InitAfter /\ [][NextAfter]_vars

\* Positions in the record of the registration at which the after-route-register
\* hook of the k-th plugin registered by then was called.
AfterCalls(k) ==
  {i \in DOMAIN applied.ev :
     /\ applied.ev[i].ph = "call" /\ applied.ev[i].kind = "after"
     /\ applied.ev[i].id = applied.plugins[k].id}

(***************************************************************************)
(* C30: in a route registration the after-route-register hook of every     *)
(* plugin that has one is called exactly once, and only once the route is  *)
(* in the route table; every hook called has settled when the registration *)
(* call settles.                                                           *)
(***************************************************************************)
C30_AfterRegisterOncePerPlugin ==
  applied.fn = "addRoute" =>
    /\ \A k \in DOMAIN applied.plugins :
         applied.plugins[k].after # "absent" =>
           /\ Cardinality(AfterCalls(k)) = 1
           /\ \A i \in AfterCalls(k) : \E j \in 1..(i - 1) : applied.ev[j] = Stored
    /\ \A i \in DOMAIN applied.ev :
         applied.ev[i].ph = "call" =>
           i < Len(applied.ev) /\ applied.ev[i + 1].ph = "settle"


(***************************************************************************)
(* SpecLocal: a Router (router.ts) with a global auth config, a global     *)
(* error handler, plugins with on-error hooks, and a route that may ask    *)
(* for auth and for validation.                                            *)
(***************************************************************************)
LocalSchemas ==
  {NoValidation} \cup
  {Schema(p, "absent", "absent", b) : p \in {"ok", "zod", "other"}, b \in {"absent", "ok"}}

InitLocal == RouterInit({NewAuthHandler(c) : c \in GlobalAuthConfigs},
                        {0, FnId.globalOnError})

NextLocal ==
  \/ \E p \in ErrorPlugins : Len(plugins) < MaxPlugins /\ RegisterPlugin(p)
  \/ \E a \in {AuthAbsent, AuthTrue}, v \in LocalSchemas, o \in {"ok", "throw"} :
       Len(routes) < MaxRoutes /\ AddRoute("POST", UrlA, a, v, <<>>, o, "none")
  \/ \E b \in {"json", "malformed"} : HandleOnRequest(Req("POST", UrlA, b, "json"))
  \/ Pipeline

SpecLocal == InitLocal /\ [][NextLocal]_vars

\* A validator of the route threw during the dispatch in progress, or the
\* body its schema asks for was read and could not be decoded.
ValidationFailed ==
  \/ \E i \in DOMAIN log :
       log[i].ph = "settle" /\ log[i].kind = "validator" /\ log[i].out # "ok"
  \/ /\ Route.opts.validation.body # "absent" /\ req.body # "json"
     /\ ~VerifyFailed

(***************************************************************************)
(* C31: when the verify step or the validation of a dispatched request     *)
(* fails, the route answers at that stage with the 401, the mapper's       *)
(* response or the 400; the handler is not called, and neither a plugin's  *)
(* on-error hook nor the global error handler is called for the request.   *)
(***************************************************************************)
C31_FailuresAnsweredLocally ==
  (RouteDone /\ (VerifyFailed \/ ValidationFailed)) =>
    /\ ~Called("onError") /\ ~Called("globalOnError")
    /\ ~Called("handler")
    /\ pc # "handleError"
    /\ res.tag \in {"authFailed", "mapper", "validation"}


(***************************************************************************)
(* C32: a response that an on-request hook or a middleware of any tier     *)
(* returned without a content type leaves the router labelled              *)
(* application/json, as a handler's response does.                         *)
(***************************************************************************)
C32_ShortCircuitContentType ==
  (pc = "done" /\ res.tag \in {"onRequest", "mw"}) => res.ctype = "json"


(***************************************************************************)
(* SpecInit: a Router (router.ts) whose plugins have an init hook that     *)
(* returns or throws, next to register, on-request, on-error and           *)
(* on-response hooks; routes are registered and requests dispatched after  *)
(* and between the plugin registrations.                                   *)
(***************************************************************************)
InitPlugins ==
  {[Plugin(0, b, "null", e, "null", NoAuthCfg) EXCEPT !.onInit = i, !.after = b] :
     i \in {"absent", "ok", "throw"}, b \in {"absent", "null"}, e \in {"absent", "null"}}

InitInit == RouterInit({NoAuthHandler}, {0})

NextInit ==
  \/ \E p \in InitPlugins : Len(plugins) < MaxHookPlugins /\ RegisterPluginInit(p)
  \/ \E o \in {"ok", "throw"} :
       Len(routes) < MaxRoutes
       /\ AddRouteCall("GET", UrlA, AuthAbsent, NoValidation, <<>>, o, "none")
  \/ HandleOnRequest(Get(UrlA))
  \/ Pipeline

SpecInit == InitInit /\ [][NextInit]_vars

\* The hook calls on record: those of the dispatch in progress and those of
\* the last registration call.
HookCallsOnRecord ==
  {log[i] : i \in {j \in DOMAIN log : log[j].ph = "call"}} \cup
  (IF applied.fn \in {"addRoute", "registerPlugin"}
   THEN {applied.ev[i] : i \in {j \in DOMAIN applied.ev : applied.ev[j].ph = "call"}}
   ELSE {})

PluginHookKinds == {"before", "after", "onRequest", "onError", "onResponse"}

\* Something called during the dispatch in progress has thrown.
SomethingThrew ==
  \E i \in DOMAIN log : log[i].ph = "settle" /\ log[i].out \in {"throw", "throwValue"}

(***************************************************************************)
(* C33: registerPlugin calls the plugin's init hook exactly once and has   *)
(* called it when it settles; no other hook of a plugin is called before   *)
(* its init hook was; registerPlugin rejects iff the init hook threw; and  *)
(* no on-error hook is called in a dispatch in which nothing threw.        *)
(***************************************************************************)
C33_InitOnceAndFirst ==
  /\ \A k \in DOMAIN plugins :
       plugins[k].inits = IF plugins[k].onInit = "absent" THEN 0 ELSE 1
  /\ \A c \in HookCallsOnRecord :
       c.kind \in PluginHookKinds =>
         \E k \in DOMAIN plugins :
           /\ plugins[k].id = c.id
           /\ plugins[k].onInit # "absent" => plugins[k].inits = 1
  /\ applied.fn = "registerPlugin" =>
       LET p == plugins[applied.id]
       IN  /\ p.onInit # "absent" =>
                applied.ev = Invoke("onInit", Fn(applied.id, p.onInit), 0)
           /\ p.onInit = "absent" => applied.ev = <<>>
           /\ (applied.settled = "rejected") = (p.onInit = "throw")
  /\ ~SomethingThrew => ~Called("onError")

C33_Witness ==
  /\ pc = "done" /\ ~SomethingThrew
  /\ Len(plugins) = 1 /\ plugins[1].onInit = "ok" /\ plugins[1].inits = 1
  /\ plugins[1].onError = "null"
  /\ CallsOf("onRequest") = <<1>>


(***************************************************************************)
(* C40: a plugin is in the plugin list once registerPlugin has settled,    *)
(* whether its init hook returned or threw, and a plugin in the list has   *)
(* its hooks called by later registrations and dispatches whatever its     *)
(* init hook did.                                                          *)
(***************************************************************************)
C40_FailedInitStaysRegistered ==
  /\ applied.fn = "registerPlugin" =>
       /\ applied.id \in DOMAIN plugins
       /\ plugins[applied.id].id = applied.id
       /\ (applied.settled = "rejected") = (plugins[applied.id].onInit = "throw")
  /\ pc # "idle" => CallsOf("onRequest") = HookCallees("onRequest")
  /\ pc = "done" => CallsOf("onResponse") = HookCallees("onResponse")
  /\ (pc = "done" /\ SomethingThrew) => CallsOf("onError") = HookCallees("onError")
  /\ applied.fn = "addRoute" =>
       \A k \in DOMAIN applied.plugins :
         /\ applied.plugins[k].before # "absent" =>
              \E i \in DOMAIN applied.ev :
                applied.ev[i] = Call("before", applied.plugins[k].id, 0)
         /\ applied.plugins[k].after # "absent" => Cardinality(AfterCalls(k)) = 1

C40_Witness ==
  /\ pc = "done" /\ SomethingThrew
  /\ Len(plugins) = 2 /\ plugins[1].onInit = "throw" /\ plugins[2].onInit = "ok"
  /\ plugins[1].onError = "null"
  /\ CallsOf("onRequest") = <<1, 2>>
  /\ CallsOf("onError") = <<1>>
  /\ CallsOf("onResponse") = <<1, 2>>


(***************************************************************************)
(* SpecReconf: a Router (router.ts) whose global auth config is set or     *)
(* replaced by configureAuth after its routes were registered.             *)
(***************************************************************************)
InitReconf == RouterInit({NoAuthHandler} \cup {NewAuthHandler(c) : c \in GlobalAuthConfigs},
                         {0})

NextReconf ==
  \/ \E c \in LaterAuthConfigs : Len(routes) > 0 /\ ConfigureAuth(c)
  \/ \E a \in {AuthAbsent, AuthTrue}, o \in {"ok", "throw"} :
       /\ Len(routes) < MaxRoutes /\ authHandler.config \notin LaterAuthConfigs
       /\ AddRoute("GET", UrlA, a, NoValidation, <<>>, o, "none")
  \/ HandleOnRequest(Get(UrlA))
  \/ Pipeline

SpecReconf == InitReconf /\ [][NextReconf]_vars

(***************************************************************************)
(* C34: a dispatch to a route registered with auth: true authenticates     *)
(* with the global config the router holds at the dispatch, also when      *)
(* configureAuth set or replaced it after the route was registered: the    *)
(* verify step called is that config's, and a verify failure is answered   *)
(* by that config's mapper, or by the default 401 when it has none.        *)
(***************************************************************************)
C34_GlobalConfigReadAtDispatch ==
  (RouteDone /\ RouteAuth # AuthAbsent /\ authHandler.hasConfig) =>
    LET cfg == authHandler.config
    IN  /\ CallsOf("verify") = <<cfg.verify.id>>
        /\ VerifyFailed = (cfg.verify.out = "throw")
        /\ VerifyFailed =>
             /\ ~Called("handler")
             /\ IF cfg.onError # 0
                THEN res.tag = "mapper" /\ res.by = cfg.onError
                ELSE res.tag = "authFailed" /\ res.status = 401
        /\ ~VerifyFailed =>
             \E i \in DOMAIN log : IsCall(i, "handler") /\ log[i].auth = cfg.verify.id

C34_Witness ==
  /\ pc = "done" /\ HasRoute /\ RouteAuth = AuthTrue
  /\ authHandler.config = AuthCfg(Fn(FnId.laterVerify, "throw"), FnId.laterMapper)
  /\ CallsOf("verify") = <<FnId.laterVerify>>
  /\ res.tag = "mapper" /\ res.by = FnId.laterMapper


(***************************************************************************)
(* SpecAsync: registration calls made without awaiting the previous one,   *)
(* on a Router (router.ts) whose plugin may have a before-route-register   *)
(* hook; the hook returns at once or waits for a timer of its own.         *)
(***************************************************************************)
AsyncPlugins ==
  {Plugin(0, b, "absent", "absent", "absent", NoAuthCfg) : b \in {"null", "suspend"}}

\* The number of addRoute calls made so far.
CallsMade == Len(routes) + Len(suspended)

\* addRoute(...) is called: it runs up to
\* `await this.runPluginHook('onBeforeRouteRegister', ...)` and waits there,
\* on a timer when a hook of a plugin waits on one.  The handler passed to
\* the n-th call has identity n.
AddRouteBegin(method, path, out) ==
  /\ pc = "idle"
  /\ suspended' = Append(suspended,
       [fn |-> "addRoute",
        timer |-> \E k \in DOMAIN plugins : plugins[k].before = "suspend",
        route |-> [path |-> path, method |-> method, middleware |-> <<>>,
                   opts |-> Opts(AuthAbsent, NoValidation, <<>>),
                   handler |-> Handler(CallsMade + 1, out, "none"), via |-> "runAuth"]])
  /\ UNCHANGED <<router, pc, req, matched, res, err, inCatch, log, applied, held>>

\* The await of a suspended addRoute call returns and the call runs to its
\* end: this.routes.push(...).  A call that waits on no timer resumes after
\* the calls made before it, unless those wait on a timer.
AddRoutePush(i) ==
  /\ i \in DOMAIN suspended
  /\ suspended[i].fn = "addRoute"
  /\ \A j \in 1..(i - 1) : suspended[j].timer
  /\ routes' = Append(routes, suspended[i].route)
  /\ suspended' = SubSeq(suspended, 1, i - 1) \o SubSeq(suspended, i + 1, Len(suspended))
  /\ UNCHANGED <<globalMws, pathMws, authHandler, onError, plugins,
                 pc, req, matched, res, err, inCatch, log, applied, held>>

InitAsync == RouterInit({NoAuthHandler}, {0})

NextAsync ==
  \/ \E p \in AsyncPlugins : Len(plugins) < MaxPlugins /\ RegisterPlugin(p)
  \/ \E m \in {"GET", "POST"}, p \in {UrlA, UrlB} :
       CallsMade < MaxLookupRoutes /\ AddRouteBegin(m, p, "ok")
  \/ \E i \in 1..MaxLookupRoutes : AddRoutePush(i)

SpecAsync == InitAsync /\ [][NextAsync]_vars

(***************************************************************************)
(* C35: whatever the interleaving of the registration calls, the route     *)
(* table lists the routes in the order in which the calls were made.       *)
(***************************************************************************)
C35_TableInCallOrder ==
  Ascending([i \in DOMAIN routes |-> routes[i].handler.id])


(***************************************************************************)
(* SpecConc: several handle() calls in flight on one Router (router.ts).   *)
(* A call that waits at an await between two stages of its pipeline is     *)
(* kept in `suspended` with the values of its local variables while        *)
(* another call runs; the router is not changed while calls are in flight. *)
(***************************************************************************)
MaxSuspended == 1

\* The local state of the handle() call that is running.
Running ==
  [fn |-> "handle", pc |-> pc, req |-> req, matched |-> matched, res |-> res,
   err |-> err, inCatch |-> inCatch, log |-> log, held |-> held]

\* The running handle() call waits at an await; the caller may call handle()
\* again or another suspended call may resume.
Suspend ==
  /\ pc # "idle"
  /\ suspended' = Append(suspended, Running)
  /\ pc' = "idle"
  /\ req' = NoReq
  /\ matched' = NoMatched
  /\ res' = NoRes
  /\ err' = NoErr
  /\ inCatch' = FALSE
  /\ log' = <<>>
  /\ held' = NoHeld
  /\ UNCHANGED <<router, applied>>

\* Mutant: the response in hand is a field of the router, not a local
\* variable of the call.
Resume_SharedResponse(i) ==
  /\ pc = "idle" /\ req = NoReq
  /\ i \in DOMAIN suspended
  /\ suspended[i].fn = "handle"
  /\ pc' = suspended[i].pc
  /\ req' = suspended[i].req
  /\ matched' = suspended[i].matched
  /\ res' = res
  /\ err' = suspended[i].err
  /\ inCatch' = suspended[i].inCatch
  /\ log' = suspended[i].log
  /\ held' = suspended[i].held
  /\ suspended' = SubSeq(suspended, 1, i - 1) \o SubSeq(suspended, i + 1, Len(suspended))
  /\ UNCHANGED <<router, applied>>

\* The await of a suspended handle() call returns and the call goes on.
Resume(i) ==
  /\ pc = "idle" /\ req = NoReq
  /\ i \in DOMAIN suspended
  /\ suspended[i].fn = "handle"
  /\ pc' = suspended[i].pc
  /\ req' = suspended[i].req
  /\ matched' = suspended[i].matched
  /\ res' = suspended[i].res
  /\ err' = suspended[i].err
  /\ inCatch' = suspended[i].inCatch
  /\ log' = suspended[i].log
  /\ held' = suspended[i].held
  /\ suspended' = SubSeq(suspended, 1, i - 1) \o SubSeq(suspended, i + 1, Len(suspended))
  /\ UNCHANGED <<router, applied>>

ConcPlugins == {Plugin(0, "absent", "null", "null", "replace", NoAuthCfg)}

InitConc == RouterInit({NewAuthHandler(AuthCfg(Fn(FnId.globalVerify, "ok"), 0))}, {0})

NextConc ==
  \/ \E p \in ConcPlugins :
       /\ Len(plugins) < MaxPlugins /\ suspended = <<>>
       /\ RegisterPlugin(p)
  \/ \E a \in {AuthAbsent, AuthTrue}, o \in {"ok", "throw"} :
       /\ Len(routes) < MaxRoutes /\ suspended = <<>>
       /\ AddRoute("GET", UrlA, a, Schema("ok", "absent", "absent", "absent"), <<>>, o, "none")
  \/ \E r \in {Get(UrlA), Get(UrlB)} : HandleOnRequest(r)
  \/ Pipeline
  \/ Len(suspended) < MaxSuspended /\ Suspend
  \/ \E i \in 1..MaxSuspended : Resume(i)

SpecConc == InitConc /\ [][NextConc]_vars

\* A step of handle()'s try block followed by the rest, unless the step
\* answered or threw.
Then(o, rest) == IF o.kind = "none" THEN After(o.ev, rest) ELSE o

\* The try block of handle(req) run without interruption.
TryAlone(r) ==
  LET m == matchRouteHandler(routes, r.method, Pathname(r.url))
      handled == LET o == RouteHandler(authHandler, routes[m.index], r)
                 IN  IF o.kind = "res" THEN Respond(o.ev, SetContentType(o.res)) ELSE o
      routed == IF m.index = 0 THEN Respond(<<>>, NotFoundRes)
                ELSE Then(RunMiddlewares("routeMw", routes[m.index].middleware), handled)
  IN  Then(RunPluginHook(plugins, "onRequest"),
        Then(RunMiddlewares("globalMw", MwsFor(r, globalMws)),
          Then(RunPathMiddlewares(pathMws, Pathname(r.url)), routed)))

\* handle(req) run without interruption: the calls it makes, and the
\* response it resolves with ("res") or the rejection ("throw").
HandleAlone(r) ==
  LET respond(o) ==
        IF o.kind = "res"
        THEN After(o.ev, RunPluginResponseHook(PluginsFor(r, plugins), o.res))
        ELSE o
      tried == respond(TryAlone(r))
  IN  IF tried.kind = "res" THEN tried
      ELSE After(tried.ev, respond(HandleErrorOf(plugins, onError, tried.err)))

C37_ObjectAuthNeedsNoGlobal ==
  (RouteDone /\ RouteAuth.kind = "object") =>
    /\ CallsOf("verify") = <<RouteAuth.cfg.verify.id>>
    /\ \A i \in DOMAIN log : IsCall(i, "handler") => VerifyOkBefore(i)
    /\ VerifyFailed => ~Called("handler")
    /\ res.tag # "authConfig"


(***************************************************************************)
(* C38: when the schema has a body validator and the body of a request     *)
(* declared as JSON does not decode, validateRequest records exactly one   *)
(* body failure, does not call the body validator, keeps the failures of   *)
(* params, query and headers, and leaves the body unset; when the schema   *)
(* has no body validator the body is not read and is left unset.           *)
(***************************************************************************)
C38_UndecodableBody ==
  applied.fn = "validateRequest" =>
    LET r == applied.req
        v == applied.validation
        out == applied.out
        bodyErrors == SelectSeq(out.errors, LAMBDA f : f = "body")
        bodyCalls == SelectSeq(out.ev, LAMBDA e : e.kind = "validator" /\ e.id = FacetId("body"))
    IN  /\ (v.body # "absent" /\ r.ctype = "json" /\ r.body # "json") =>
             /\ Len(bodyErrors) = 1
             /\ bodyCalls = <<>>
             /\ SelectSeq(out.errors, LAMBDA f : f # "body") =
                  SelectSeq(Facets, LAMBDA f : f # "body" /\ FacetFails(r, v, f))
             /\ out.data.body = "unset"
        /\ v.body = "absent" =>
             /\ bodyErrors = <<>> /\ bodyCalls = <<>>
             /\ ~out.bodyRead
             /\ out.data.body = "unset"

C38_Witness ==
  /\ applied.fn = "validateRequest"
  /\ applied.req.body = "malformed" /\ applied.req.ctype = "json"
  /\ applied.validation = Schema("other", "ok", "zod", "ok")
  /\ applied.out.errors = <<"params", "headers", "body">>


(***************************************************************************)
(* SpecCors: a Router (router.ts) on which CorsPlugin is registered, alone *)
(* or next to a plugin whose hooks return nothing, with middleware of the  *)
(* application that pass the request on; routes for GET and OPTIONS are    *)
(* registered, and GET and OPTIONS requests with and without an Origin     *)
(* header are dispatched.                                                  *)
(***************************************************************************)
CorsPlugins == {CorsPlugin, Plugin(0, "absent", "null", "absent", "null", NoAuthCfg)}

CorsRequests ==
  {[Req(m, u, "none", "none") EXCEPT !.origin = o] :
     m \in {"GET", "OPTIONS"}, u \in {UrlA, UrlB}, o \in BOOLEAN}

InitCors == RouterInit({NoAuthHandler}, {0})

NextCors ==
  \/ \E p \in CorsPlugins : Len(plugins) < MaxHookPlugins /\ RegisterPluginInit(p)
  \/ MwCount < MaxMws /\ Use("next", <<>>)
  \/ \E m \in {"GET", "OPTIONS"}, o \in {"ok", "throw"} :
       Len(routes) < MaxRoutes
       /\ AddRoute(m, UrlA, AuthAbsent, NoValidation, <<"next">>, o, "none")
  \/ \E r \in CorsRequests : HandleOnRequest(r)
  \/ Pipeline

SpecCors == InitCors /\ [][NextCors]_vars

\* CorsPlugin is registered; the middleware its init hook installed; the
\* CorsPlugin instances whose on-response hook replaced the response in hand.
CorsRegistered == \E k \in DOMAIN plugins : plugins[k].onInit = "use"
PreflightMws == {globalMws[i].id : i \in {j \in DOMAIN globalMws : globalMws[j].out = "cors"}}
CorsMarks == SelectSeq(res.marks, LAMBDA id : plugins[id].onResponse = "cors")

(***************************************************************************)
(* C39: with CorsPlugin registered, an OPTIONS request with an Origin      *)
(* header is answered with status 204 by the preflight middleware the      *)
(* plugin installed, whatever the routes are, and no route is matched and  *)
(* no route middleware or handler is called; an OPTIONS request without    *)
(* an Origin header is not answered by that middleware and gets the 404    *)
(* response when no route matches it; and the plugin's on-response hook    *)
(* replaces the response exactly when the request has an Origin header.    *)
(***************************************************************************)
C39_PreflightByOrigin ==
  CorsRegistered =>
    /\ (req.method = "OPTIONS" /\ req.origin) =>
         /\ pc \in {"globalMws", "onResponse", "done"}
         /\ matched = NoMatched
         /\ ~Called("routeMw") /\ ~Called("handler")
         /\ pc \in {"onResponse", "done"} =>
              /\ res.status = 204 /\ res.tag = "preflight"
              /\ res.by \in PreflightMws
    /\ (pc = "done" /\ req.method = "OPTIONS" /\ ~req.origin) =>
         /\ res.tag # "preflight"
         /\ matchRouteHandler(routes, req.method, Pathname(req.url)).index = 0 =>
              res.status = 404 /\ res.tag = "notFound"
         /\ matchRouteHandler(routes, req.method, Pathname(req.url)).index # 0 =>
              Called("handler")
    /\ pc = "done" => (CorsMarks # <<>>) = req.origin
    /\ pc # "done" => CorsMarks = <<>>

C39_Witness ==
  /\ pc = "done" /\ req.method = "OPTIONS" /\ req.origin
  /\ Len(routes) = 1 /\ routes[1].method = "OPTIONS" /\ routes[1].path = req.url
  /\ res.status = 204 /\ res.marks # <<>>

=============================================================================
